---- MODULE Spec2Model ----
(***************************************************************************)
(* Referral microservice: referral lifecycle and reward settlement.        *)
(*                                                                         *)
(* The store is a MySQL database: every query is one atomic step, and a    *)
(* request handler is a sequence of such steps (one per await) that other  *)
(* handlers interleave with.  Each process of Procs runs one handler; pc   *)
(* is the await it stands at and loc holds the handler's local variables.  *)
(* Module bindings are resolved by the identifier they are bound to        *)
(* (externalServices is the ExternalServices instance, rewardService the   *)
(* RewardService class, Reward/Referral/Campaign the model classes).       *)
(***************************************************************************)
EXTENDS Integers, Sequences, FiniteSets, TLC

\* ------------------------------------------------------------ bounds
NProc == 3
NCreate == 2
NLifecycle == 2
NCampaign == 2
NSweep == 2
MaxRewards == 4
MaxLedgerCalls == 2
NRetry == 2
NCron == 1
NBulk == 1
MaxBatch == 3

Procs == 1..NProc
CreateProcs == 1..NCreate
LifecycleProcs == 1..NLifecycle
CampaignProcs == 1..NCampaign
SweepProcs == 1..NSweep
Users == {"u1", "u2"}
Roles == {"customer", "driver", "restaurant"}

VARIABLES
  rewards,     \* table rewards: sequence of rows, id = index
  referrals,   \* table referrals: sequence of rows, id = index
  codes,       \* table referral_codes: code -> row
  campaigns,   \* table campaigns: sequence of rows, id = index
  ledger,      \* payment service: successful credits per reward (source_id), by caller
  trans,       \* per reward: how many times its status was changed to credited
  pc,          \* per process: the await the handler stands at
  loc          \* per process: the handler's locals

vars == <<rewards, referrals, codes, campaigns, ledger, trans, pc, loc>>

\* ------------------------------------------------------------ rows
RewardRow(user, type, amount, srcType, srcId, milestone) ==
  [amount |-> amount, user_id |-> user, reward_type |-> type, status |-> "pending",
   source_type |-> srcType, source_id |-> srcId,
   metadata |-> [milestone |-> milestone, kind |-> "string"],
   past |-> FALSE]

ReferralRow(referrer, rrType, referee, reType, code, cond, rrBonus, reBonus, minOrder, camp) ==
  [status |-> "pending", past |-> FALSE,
   referrer_id |-> referrer, referrer_type |-> rrType,
   referee_id |-> referee, referee_type |-> reType,
   referral_code |-> code, completion_condition |-> cond,
   referrer_bonus |-> rrBonus, referee_bonus |-> reBonus,
   minimum_order_amount |-> minOrder, campaign_id |-> camp,
   completion_date |-> FALSE]

\* trigger_data of a trigger request
NoPayload == [amount |-> 0, user_id |-> "none", customer_id |-> "none", driver_id |-> "none"]

\* A handler's locals before it runs.
IdleLoc ==
  [user |-> "none", amount |-> 0, referee |-> "none", reType |-> "none",
   code |-> "none", rrBonus |-> 0, camp |-> 0,
   op |-> "none", id |-> 0, batch |-> {}, count |-> 0,
   cas |-> FALSE, paid |-> "none", crRet |-> "", crRes |-> "none", out |-> "none",
   rid |-> 0, ttype |-> "none", tdata |-> NoPayload, list |-> <<>>, prRet |-> "",
   msRet |-> "", mi |-> 0, granted |-> 0, completed |-> 0, thisBound |-> TRUE,
   notify |-> "none", role |-> "none", results |-> <<>>]

Goto(p, label, l) ==
  /\ pc' = [pc EXCEPT ![p] = label]
  /\ loc' = [loc EXCEPT ![p] = l]

\* ------------------------------------------------------------ Reward model
\* WHERE id = ? AND status = 'pending'
CreditWhereBlind(row) == TRUE
Reward_creditReward_where(row) == row.status = "pending"

\* affectedRows > 0
Reward_creditReward_affected(id) ==
  id \in DOMAIN rewards /\ Reward_creditReward_where(rewards[id])

Reward_creditReward(id) ==
  IF Reward_creditReward_affected(id)
  THEN /\ rewards' = [rewards EXCEPT ![id].status = "credited"]
       /\ trans' = [trans EXCEPT ![id] = @ + 1]
  ELSE UNCHANGED <<rewards, trans>>

\* UPDATE rewards SET status = ? WHERE id = ?
Reward_updateStatus_row(row, status) == [row EXCEPT !.status = status]

Reward_updateStatus(id, status) ==
  rewards' = [rewards EXCEPT ![id] = Reward_updateStatus_row(@, status)]

\* WHERE status = 'pending' AND expiry_date < CURRENT_TIMESTAMP
GetExpiredIgnoresStatus == {i \in DOMAIN rewards : rewards[i].past}
Reward_getExpiredRewards ==
  {i \in DOMAIN rewards : rewards[i].status = "pending" /\ rewards[i].past}

\* INSERT INTO rewards ...; the new row's id
Reward_create(row) == rewards' = Append(rewards, row)

\* SELECT * FROM rewards WHERE user_id = ?
Reward_findByUser(userId) == {i \in DOMAIN rewards : rewards[i].user_id = userId}

\* JSON.parse: a JSON text yields the object; anything else is first turned
\* into the text "[object Object]", which is not JSON, and throws.
JsonParse(v) ==
  IF v.kind = "string"
  THEN [threw |-> FALSE, value |-> [v EXCEPT !.kind = "object"]]
  ELSE [threw |-> TRUE, value |-> v]

\* ------------------------------------------------------------ ExternalServices
\* What the awaited call yields: a thrown error, or the resolved value, which
\* is a JavaScript object (with its success field) or undefined.
Threw == [threw |-> TRUE, isObject |-> FALSE, success |-> FALSE]
Undefined == [threw |-> FALSE, isObject |-> FALSE, success |-> FALSE]
SuccessObject(b) == [threw |-> FALSE, isObject |-> TRUE, success |-> b]

CreditReportsSuccessAlways(requestOk) == SuccessObject(TRUE)
\* makeRequest rejects -> rethrown; resolves -> the function ends without a return
ExternalServices_creditUserAccount(requestOk) ==
  IF requestOk THEN Undefined ELSE Threw

\* sendNotification: try { await makeRequest(...) } catch { log }, no return.
SendNotificationRethrows(requestOk) == IF requestOk THEN Undefined ELSE Threw
ExternalServices_sendNotification(requestOk) == Undefined

\* The handler's locals after a notification request that went through or not.
Notified(l, requestOk) ==
  [l EXCEPT !.notify = IF ~requestOk \/ @ = "failed" THEN "failed" ELSE "ok"]

\* ------------------------------------------------------------ RewardService.creditReward
\* Leaves creditReward with result res: to the caller's continuation, or done.
CreditReturn(p, l, res) ==
  IF l.crRet = ""
  THEN Goto(p, "done", [l EXCEPT !.out = res, !.crRes = res])
  ELSE Goto(p, l.crRet, [l EXCEPT !.crRes = res])

CallCreditReward(p, id) ==
  /\ pc[p] = "idle"
  /\ Goto(p, "cr_find", [IdleLoc EXCEPT !.op = "creditReward", !.id = id])
  /\ UNCHANGED <<rewards, referrals, codes, campaigns, ledger, trans>>

creditReward_findById(p) ==
  /\ pc[p] = "cr_find"
  /\ LET id == loc[p].id IN
     IF id \notin DOMAIN rewards
     THEN CreditReturn(p, loc[p], "null")
     ELSE IF rewards[id].status # "pending"
     THEN CreditReturn(p, loc[p], "unchanged")
     ELSE Goto(p, "cr_ledger", loc[p])
  /\ UNCHANGED <<rewards, referrals, codes, campaigns, ledger, trans>>

\* The payment request, then `creditResult.success`, then Reward.creditReward.
creditReward_credit(p, requestOk) ==
  /\ pc[p] \in {"cr_ledger", "cr_cas"}
  /\ LET id == loc[p].id IN
     IF pc[p] = "cr_ledger"
     THEN LET res == ExternalServices_creditUserAccount(requestOk)
              l == [loc[p] EXCEPT !.paid = IF requestOk THEN "ok" ELSE "failed"]
          IN /\ ledger' = IF requestOk
                          THEN [ledger EXCEPT ![id].service = @ + 1]
                          ELSE ledger
             /\ UNCHANGED <<rewards, trans>>
             /\ IF res.threw THEN CreditReturn(p, l, "error")
                ELSE IF ~res.isObject THEN CreditReturn(p, l, "error")
                ELSE IF res.success THEN Goto(p, "cr_cas", l)
                ELSE CreditReturn(p, l, "null")
     ELSE /\ Reward_creditReward(id)
          /\ UNCHANGED ledger
          /\ IF Reward_creditReward_affected(id)
             THEN CreditReturn(p, [loc[p] EXCEPT !.cas = TRUE], "credited")
             ELSE CreditReturn(p, loc[p], "null")
  /\ UNCHANGED <<referrals, codes, campaigns>>

\* ------------------------------------------------------------ RewardController.claimReward
claimReward_findById(p, id, user) ==
  /\ pc[p] = "idle"
  /\ LET l == [IdleLoc EXCEPT !.op = "claimReward", !.id = id, !.user = user] IN
     IF id \notin DOMAIN rewards THEN Goto(p, "done", [l EXCEPT !.out = "404"])
     ELSE IF rewards[id].user_id # user THEN Goto(p, "done", [l EXCEPT !.out = "403"])
     ELSE IF rewards[id].status # "pending"
     THEN Goto(p, "done", [l EXCEPT !.out = "400_not_pending"])
     ELSE Goto(p, "cl_cas", l)
  /\ UNCHANGED <<rewards, referrals, codes, campaigns, ledger, trans>>

claimReward_creditReward(p) ==
  /\ pc[p] = "cl_cas"
  /\ Reward_creditReward(loc[p].id)
  /\ IF Reward_creditReward_affected(loc[p].id)
     THEN Goto(p, "cl_ledger", [loc[p] EXCEPT !.cas = TRUE])
     ELSE Goto(p, "done", [loc[p] EXCEPT !.out = "400_failed"])
  /\ UNCHANGED <<referrals, codes, campaigns, ledger>>

claimReward_creditUserAccount(p, requestOk) ==
  /\ pc[p] = "cl_ledger"
  /\ LET res == ExternalServices_creditUserAccount(requestOk) IN
     /\ ledger' = IF requestOk
                  THEN [ledger EXCEPT ![loc[p].id].claim = @ + 1]
                  ELSE ledger
     /\ Goto(p, "done", [loc[p] EXCEPT !.paid = IF requestOk THEN "ok" ELSE "failed",
                                       !.out = IF res.threw THEN "500" ELSE "200"])
  /\ UNCHANGED <<rewards, referrals, codes, campaigns, trans>>

\* ------------------------------------------------------------ RewardService.expireOldRewards
expireOldRewards_getExpiredRewards(p) ==
  /\ pc[p] = "idle"
  /\ LET batch == Reward_getExpiredRewards
         l == [IdleLoc EXCEPT !.op = "expireOldRewards", !.batch = batch,
                              !.count = Cardinality(batch)]
     IN IF batch = {} THEN Goto(p, "done", [l EXCEPT !.out = "count"])
        ELSE Goto(p, "sw_update", l)
  /\ UNCHANGED <<rewards, referrals, codes, campaigns, ledger, trans>>

\* One turn of the loop: the update, then the expiration notification.  An
\* exception of either (queryOk: whether the database carries out the
\* update) leaves the loop through the function's rethrowing catch.
expireOldRewards_updateStatus(p, queryOk, requestOk) ==
  /\ pc[p] = "sw_update"
  /\ \E id \in loc[p].batch :
       IF queryOk
       THEN /\ Reward_updateStatus(id, "expired")
            /\ LET l == Notified([loc[p] EXCEPT !.batch = @ \ {id}], requestOk) IN
               IF ExternalServices_sendNotification(requestOk).threw
               THEN Goto(p, "done", [l EXCEPT !.out = "throws"])
               ELSE IF l.batch = {} THEN Goto(p, "done", [l EXCEPT !.out = "count"])
               ELSE Goto(p, "sw_update", l)
       ELSE /\ UNCHANGED rewards
            /\ Goto(p, "done", [loc[p] EXCEPT !.out = "throws", !.id = id])
  /\ UNCHANGED <<referrals, codes, campaigns, ledger, trans>>

\* The clock passes a reward's expiry_date.
RewardExpiryPasses(id) ==
  /\ id \in DOMAIN rewards
  /\ ~rewards[id].past
  /\ rewards' = [rewards EXCEPT ![id].past = TRUE]
  /\ UNCHANGED <<referrals, codes, campaigns, ledger, trans, pc, loc>>

\* ------------------------------------------------------------ rewards specification
\* A completed referral of u2 by u1 whose settlement created the two rewards.
\* The database and the notification service answer every request here;
\* their failures are the subject of the sweep and notification
\* specifications.
InitRewards ==
  /\ referrals = <<[ReferralRow("u1", "customer", "u2", "customer", "CUS2",
                                "first_order", 10, 10, 0, 0)
                    EXCEPT !.status = "completed", !.completion_date = TRUE]>>
  /\ rewards = <<RewardRow("u1", "referral_bonus", 10, "referral", 1, 0),
                 RewardRow("u2", "referral_bonus", 10, "referral", 1, 0)>>
  /\ codes = <<>>
  /\ campaigns = <<>>
  /\ ledger = [i \in 1..MaxRewards |-> [service |-> 0, claim |-> 0]]
  /\ trans = [i \in 1..MaxRewards |-> 0]
  /\ pc = [p \in Procs |-> "idle"]
  /\ loc = [p \in Procs |-> IdleLoc]

NextRewards ==
  \/ \E p \in Procs, id \in 1..(Len(rewards) + 1) : CallCreditReward(p, id)
  \/ \E p \in Procs : creditReward_findById(p)
  \/ \E p \in Procs, ok \in BOOLEAN : creditReward_credit(p, ok)
  \/ \E p \in Procs, id \in 1..(Len(rewards) + 1), u \in Users : claimReward_findById(p, id, u)
  \/ \E p \in Procs : claimReward_creditReward(p)
  \/ \E p \in Procs, ok \in BOOLEAN : claimReward_creditUserAccount(p, ok)
  \/ \E p \in Procs : expireOldRewards_getExpiredRewards(p)
  \/ \E p \in Procs : expireOldRewards_updateStatus(p, TRUE, TRUE)
  \/ \E id \in DOMAIN rewards : RewardExpiryPasses(id)

SpecRewards == InitRewards /\ [][NextRewards]_vars

\* ------------------------------------------------------------ retry specification
RetryProcs == 1..NRetry

\* A caller whose creditReward call threw calls it again for the same reward.
creditReward_again(p) ==
  /\ pc[p] = "done" /\ loc[p].op = "creditReward" /\ loc[p].out = "error"
  /\ Goto(p, "cr_find", [IdleLoc EXCEPT !.op = "creditReward", !.id = loc[p].id])
  /\ UNCHANGED <<rewards, referrals, codes, campaigns, ledger, trans>>

\* The payment request of p is accepted (at most MaxLedgerCalls times a reward).
creditReward_ledgerAccepts(p) ==
  /\ pc[p] = "cr_ledger"
  /\ ledger[loc[p].id].service < MaxLedgerCalls
  /\ creditReward_credit(p, TRUE)

InitRetry ==
  /\ referrals = <<>>
  /\ rewards = <<RewardRow("u1", "referral_bonus", 10, "referral", 1, 0),
                 RewardRow("u2", "referral_bonus", 10, "referral", 1, 0)>>
  /\ codes = <<>>
  /\ campaigns = <<>>
  /\ ledger = [i \in 1..MaxRewards |-> [service |-> 0, claim |-> 0]]
  /\ trans = [i \in 1..MaxRewards |-> 0]
  /\ pc = [p \in Procs |-> "idle"]
  /\ loc = [p \in Procs |-> IdleLoc]

NextRetry ==
  \/ \E p \in RetryProcs, id \in DOMAIN rewards : CallCreditReward(p, id)
  \/ \E p \in RetryProcs : creditReward_findById(p)
  \/ \E p \in RetryProcs : pc[p] = "cr_ledger" /\ creditReward_credit(p, FALSE)
  \/ \E p \in RetryProcs : creditReward_ledgerAccepts(p)
  \/ \E p \in RetryProcs : creditReward_again(p)

\* The caller keeps retrying and no call hangs (weak fairness of every step
\* of every caller); the ledger accepts a request that is made again and
\* again (strong fairness of the accepted request).
FairRetry ==
  \A p \in RetryProcs :
    /\ WF_vars(creditReward_findById(p))
    /\ WF_vars(creditReward_again(p))
    /\ WF_vars(pc[p] = "cr_ledger"
               /\ (creditReward_credit(p, FALSE) \/ creditReward_ledgerAccepts(p)))
    /\ SF_vars(creditReward_ledgerAccepts(p))

SpecRetry == InitRetry /\ [][NextRetry]_vars /\ FairRetry

\* ------------------------------------------------------------ claim specification
\* u1 owns a pending and a credited reward, u2 an expired and a cancelled
\* one; claims and reward sweeps run while the pending reward's expiry date
\* passes.
InitClaim ==
  /\ referrals = <<>>
  /\ rewards = <<RewardRow("u1", "referral_bonus", 10, "referral", 1, 0),
                 [RewardRow("u1", "referral_bonus", 10, "referral", 2, 0)
                  EXCEPT !.status = "credited"],
                 [RewardRow("u2", "referral_bonus", 10, "referral", 1, 0)
                  EXCEPT !.status = "expired", !.past = TRUE],
                 [RewardRow("u2", "loyalty_bonus", 5, "manual", 0, 0)
                  EXCEPT !.status = "cancelled"]>>
  /\ codes = <<>>
  /\ campaigns = <<>>
  /\ ledger = [i \in 1..MaxRewards |-> [service |-> 0, claim |-> 0]]
  /\ trans = [i \in 1..MaxRewards |-> 0]
  /\ pc = [p \in Procs |-> "idle"]
  /\ loc = [p \in Procs |-> IdleLoc]

NextClaim ==
  \/ \E p \in Procs, id \in 1..(Len(rewards) + 1), u \in Users : claimReward_findById(p, id, u)
  \/ \E p \in Procs : claimReward_creditReward(p)
  \/ \E p \in Procs, ok \in BOOLEAN : claimReward_creditUserAccount(p, ok)
  \/ \E p \in Procs : expireOldRewards_getExpiredRewards(p)
  \/ \E p \in Procs : expireOldRewards_updateStatus(p, TRUE, TRUE)
  \/ \E id \in DOMAIN rewards : RewardExpiryPasses(id)

SpecClaim == InitClaim /\ [][NextClaim]_vars

\* ------------------------------------------------------------ ReferralCode model
CodeRow(owner, ownerType, maxUsage, bonus, minOrder) ==
  [past |-> FALSE, minimum_order_amount |-> minOrder,
   owner_id |-> owner, owner_type |-> ownerType, usage_count |-> 0,
   max_usage |-> maxUsage, is_active |-> TRUE, bonus_amount |-> bonus]

\* WHERE code = ? AND is_active = TRUE AND usage_count < max_usage
\*   AND (expiry_date IS NULL OR expiry_date > CURRENT_TIMESTAMP)
ValidateIgnoresExpiry(code) ==
  /\ code \in DOMAIN codes
  /\ codes[code].is_active
  /\ codes[code].usage_count < codes[code].max_usage
ReferralCode_validateCode(code) ==
  /\ code \in DOMAIN codes
  /\ codes[code].is_active
  /\ codes[code].usage_count < codes[code].max_usage
  /\ ~codes[code].past

\* SET usage_count = usage_count + 1 WHERE id = ?
ReferralCode_incrementUsage(code) ==
  codes' = [codes EXCEPT ![code].usage_count = @ + 1]

\* ------------------------------------------------------------ Campaign model
CampaignRow(audience, bonus, maxParticipants) ==
  [is_active |-> TRUE, bonus_amount |-> bonus, target_audience |-> audience,
   max_participants |-> maxParticipants, current_participants |-> 0,
   started |-> TRUE, ended |-> FALSE]

\* The currently running campaigns for a role, in scan order.
Campaign_findActive(audience) ==
  SelectSeq([i \in DOMAIN campaigns |-> i],
            LAMBDA i : /\ campaigns[i].is_active
                       /\ campaigns[i].started /\ ~campaigns[i].ended
                       /\ campaigns[i].target_audience \in {audience, "all"})

\* SET current_participants = current_participants + 1 WHERE id = ?
Campaign_incrementParticipants(id) ==
  campaigns' = [campaigns EXCEPT ![id].current_participants = @ + 1]

\* ------------------------------------------------------------ Referral model
SameTuple(a, b) ==
  /\ a.referrer_id = b.referrer_id /\ a.referee_id = b.referee_id
  /\ a.referrer_type = b.referrer_type /\ a.referee_type = b.referee_type

\* UNIQUE KEY unique_referral (referrer_id, referee_id, referrer_type, referee_type)
NoUniqueKey(row) == TRUE
unique_referral(row) == \A i \in DOMAIN referrals : ~SameTuple(referrals[i], row)

\* SELECT * FROM referrals WHERE referee_id = ? ORDER BY created_at DESC
Referral_findByReferee(refereeId) ==
  {i \in DOMAIN referrals : referrals[i].referee_id = refereeId}

\* ------------------------------------------------------------ ReferralController helpers
ConditionAlwaysFirstOrder(refereeType) == "first_order"
getCompletionCondition(refereeType) ==
  CASE refereeType = "customer" -> "first_order"
    [] refereeType = "driver" -> "first_delivery"
    [] refereeType = "restaurant" -> "registration"
    [] OTHER -> "first_order"

getRefereeBonus(refereeType) ==
  CASE refereeType = "customer" -> 10
    [] refereeType = "driver" -> 25
    [] refereeType = "restaurant" -> 50
    [] OTHER -> 10

\* referralCode.owner_id === value.referee_id
NoExistingCheck(refereeId, codeRow) == FALSE
SelfCheckSameRoleOnly(codeRow, refereeId, refereeType) ==
  codeRow.owner_id = refereeId /\ codeRow.owner_type = refereeType
IsSelfReferral(codeRow, refereeId, refereeType) == codeRow.owner_id = refereeId

\* r.referrer_id === owner_id && r.referrer_type === owner_type
ExistingReferral(refereeId, codeRow) ==
  \E i \in Referral_findByReferee(refereeId) :
    /\ referrals[i].referrer_id = codeRow.owner_id
    /\ referrals[i].referrer_type = codeRow.owner_type

\* ------------------------------------------------------------ ReferralController.createReferral
\* thisBound: whether the handler runs with the controller class as its
\* `this` (a method call) or with none (the router calls the bare function).
createReferral_validateCode(p, code, refereeId, refereeType, thisBound) ==
  /\ pc[p] = "idle"
  /\ LET l == [IdleLoc EXCEPT !.op = "createReferral", !.code = code,
                              !.referee = refereeId, !.reType = refereeType,
                              !.thisBound = thisBound] IN
     IF ~ReferralCode_validateCode(code)
     THEN Goto(p, "done", [l EXCEPT !.out = "400_invalid_code"])
     ELSE IF IsSelfReferral(codes[code], refereeId, refereeType)
     THEN Goto(p, "done", [l EXCEPT !.out = "400_self_referral"])
     ELSE Goto(p, "cf_existing", l)
  /\ UNCHANGED <<rewards, referrals, codes, campaigns, ledger, trans>>

createReferral_findByReferee(p) ==
  /\ pc[p] = "cf_existing"
  /\ IF ExistingReferral(loc[p].referee, codes[loc[p].code])
     THEN Goto(p, "done", [loc[p] EXCEPT !.out = "409_duplicate"])
     ELSE Goto(p, "cf_campaign", loc[p])
  /\ UNCHANGED <<rewards, referrals, codes, campaigns, ledger, trans>>

createReferral_findActive(p) ==
  /\ pc[p] = "cf_campaign"
  /\ LET active == Campaign_findActive(codes[loc[p].code].owner_type)
         camp == IF Len(active) > 0 THEN active[1] ELSE 0
     IN Goto(p, "cf_insert",
             [loc[p] EXCEPT !.camp = camp,
                            !.rrBonus = IF camp # 0 THEN campaigns[camp].bonus_amount
                                        ELSE codes[loc[p].code].bonus_amount])
  /\ UNCHANGED <<rewards, referrals, codes, campaigns, ledger, trans>>

createReferral_create(p) ==
  /\ pc[p] = "cf_insert"
  /\ LET c == codes[loc[p].code]
         row == ReferralRow(c.owner_id, c.owner_type, loc[p].referee, loc[p].reType,
                            loc[p].code, getCompletionCondition(loc[p].reType),
                            loc[p].rrBonus, getRefereeBonus(loc[p].reType),
                            c.minimum_order_amount, loc[p].camp)
     IN IF loc[p].thisBound /\ unique_referral(row)
        THEN /\ referrals' = Append(referrals, row)
             /\ Goto(p, "cf_usage", [loc[p] EXCEPT !.rid = Len(referrals) + 1])
        ELSE /\ UNCHANGED referrals
             /\ Goto(p, "done", [loc[p] EXCEPT !.out = "500"])
  /\ UNCHANGED <<rewards, codes, campaigns, ledger, trans>>

\* sendReferralNotifications: the two notifications inside its own try/catch,
\* then the 201 response.
sendReferralNotifications(requestOk) ==
  [ExternalServices_sendNotification(requestOk) EXCEPT !.threw = FALSE]

createReferral_respond(p, l, requestOk) ==
  Goto(p, "done", [Notified(l, requestOk) EXCEPT
                     !.out = IF sendReferralNotifications(requestOk).threw THEN "500"
                             ELSE "201"])

createReferral_incrementUsage(p, requestOk) ==
  /\ pc[p] = "cf_usage"
  /\ ReferralCode_incrementUsage(loc[p].code)
  /\ IF loc[p].camp # 0 THEN Goto(p, "cf_participants", loc[p])
     ELSE createReferral_respond(p, loc[p], requestOk)
  /\ UNCHANGED <<rewards, referrals, campaigns, ledger, trans>>

createReferral_incrementParticipants(p, requestOk) ==
  /\ pc[p] = "cf_participants"
  /\ Campaign_incrementParticipants(loc[p].camp)
  /\ createReferral_respond(p, loc[p], requestOk)
  /\ UNCHANGED <<rewards, referrals, codes, ledger, trans>>

\* ------------------------------------------------------------ creation specification
\* u1 holds a code in every role, u2 a deactivated one; one campaign runs for
\* drivers.
InitCreate ==
  /\ referrals = <<>>
  /\ rewards = <<>>
  /\ codes = [c \in {"CUS2", "DRV1", "REST1", "OLD1"} |->
                CASE c = "CUS2" -> CodeRow("u1", "customer", 2, 10, 5)
                  [] c = "OLD1" -> [CodeRow("u2", "customer", 50, 10, 0)
                                    EXCEPT !.is_active = FALSE]
                  [] c = "DRV1" -> CodeRow("u1", "driver", 50, 25, 0)
                  [] OTHER -> CodeRow("u1", "restaurant", 50, 50, 0)]
  /\ campaigns = <<CampaignRow("driver", 30, 1)>>
  /\ ledger = [i \in 1..MaxRewards |-> [service |-> 0, claim |-> 0]]
  /\ trans = [i \in 1..MaxRewards |-> 0]
  /\ pc = [p \in Procs |-> "idle"]
  /\ loc = [p \in Procs |-> IdleLoc]

NextCreate ==
  \/ \E p \in CreateProcs, code \in DOMAIN codes, u \in Users, t \in Roles :
       \E b \in BOOLEAN : createReferral_validateCode(p, code, u, t, b)
  \/ \E p \in CreateProcs : createReferral_findByReferee(p)
  \/ \E p \in CreateProcs : createReferral_findActive(p)
  \/ \E p \in CreateProcs : createReferral_create(p)
  \/ \E p \in CreateProcs, ok \in BOOLEAN : createReferral_incrementUsage(p, ok)
  \/ \E p \in CreateProcs, ok \in BOOLEAN : createReferral_incrementParticipants(p, ok)

SpecCreate == InitCreate /\ [][NextCreate]_vars

\* ------------------------------------------------------------ usage specification
\* The UPDATE of ReferralCode.incrementUsage fails: the exception reaches the
\* catch of createReferral, which answers 500.
createReferral_incrementUsageThrows(p) ==
  /\ pc[p] = "cf_usage"
  /\ Goto(p, "done", [loc[p] EXCEPT !.out = "500"])
  /\ UNCHANGED <<rewards, referrals, codes, campaigns, ledger, trans>>

NextUsage ==
  \/ \E p \in CreateProcs, code \in DOMAIN codes, u \in Users, t \in Roles :
       \E b \in BOOLEAN : createReferral_validateCode(p, code, u, t, b)
  \/ \E p \in CreateProcs : createReferral_findByReferee(p)
  \/ \E p \in CreateProcs : createReferral_findActive(p)
  \/ \E p \in CreateProcs : createReferral_create(p)
  \/ \E p \in CreateProcs, ok \in BOOLEAN : createReferral_incrementUsage(p, ok)
  \/ \E p \in CreateProcs, ok \in BOOLEAN : createReferral_incrementParticipants(p, ok)
  \/ \E p \in CreateProcs : createReferral_incrementUsageThrows(p)

SpecUsage == InitCreate /\ [][NextUsage]_vars

\* ------------------------------------------------------------ ReferralCodeController.createReferralCode
\* The codes that generateCode or the request can name.
CodeNames == {"NEW1", "NEW2"}

ReferralCode_getDefaultBonus(ownerType) ==
  CASE ownerType = "customer" -> 10
    [] ownerType = "driver" -> 25
    [] ownerType = "restaurant" -> 50
    [] OTHER -> 10

\* SELECT * FROM referral_codes WHERE owner_id = ? AND owner_type = ?
ReferralCode_findByOwner(ownerId, ownerType) ==
  {c \in DOMAIN codes : codes[c].owner_id = ownerId /\ codes[c].owner_type = ownerType}

\* INSERT INTO referral_codes ...  (code VARCHAR(20) NOT NULL UNIQUE)
ReferralCode_create(code, row) ==
  codes' = [c \in DOMAIN codes \cup {code} |-> IF c = code THEN row ELSE codes[c]]

createReferralCode_findByOwner(p, userId, userRole, allowMultiple) ==
  /\ pc[p] = "idle"
  /\ LET l == [IdleLoc EXCEPT !.op = "createReferralCode", !.user = userId,
                              !.role = userRole]
         activeCodes == {c \in ReferralCode_findByOwner(userId, userRole) :
                           codes[c].is_active}
     IN IF activeCodes # {} /\ ~allowMultiple
        THEN Goto(p, "done", [l EXCEPT !.out = "409"])
        ELSE Goto(p, "rc_insert", l)
  /\ UNCHANGED <<rewards, referrals, codes, campaigns, ledger, trans>>

createReferralCode_create(p) ==
  /\ pc[p] = "rc_insert"
  /\ \E code \in CodeNames :
       IF code \in DOMAIN codes
       THEN /\ UNCHANGED codes
            /\ Goto(p, "done", [loc[p] EXCEPT !.out = "500"])
       ELSE /\ ReferralCode_create(code, CodeRow(loc[p].user, loc[p].role, 50,
                                                ReferralCode_getDefaultBonus(loc[p].role), 0))
            /\ Goto(p, "done", [loc[p] EXCEPT !.code = code, !.out = "201"])
  /\ UNCHANGED <<rewards, referrals, campaigns, ledger, trans>>

\* ------------------------------------------------------------ ReferralCodeController.deactivateReferralCode
ActorRoles == Roles \cup {"admin", "sales"}

\* SET is_active = FALSE WHERE id = ?
ReferralCode_deactivateCode(id) ==
  codes' = [codes EXCEPT ![id].is_active = FALSE]

\* !(code.owner_id !== req.user.id && !["admin", "sales"].includes(req.user.role))
DeactivateAllowsAnyone(codeRow, userId, userRole) == TRUE
MayDeactivate(codeRow, userId, userRole) ==
  codeRow.owner_id = userId \/ userRole \in {"admin", "sales"}

deactivateReferralCode_findById(p, id, userId, userRole) ==
  /\ pc[p] = "idle"
  /\ LET l == [IdleLoc EXCEPT !.op = "deactivateReferralCode", !.code = id,
                              !.user = userId, !.role = userRole] IN
     IF id \notin DOMAIN codes THEN Goto(p, "done", [l EXCEPT !.out = "404"])
     ELSE IF ~MayDeactivate(codes[id], userId, userRole)
     THEN Goto(p, "done", [l EXCEPT !.out = "403"])
     ELSE Goto(p, "dc_update", l)
  /\ UNCHANGED <<rewards, referrals, codes, campaigns, ledger, trans>>

deactivateReferralCode_deactivateCode(p) ==
  /\ pc[p] = "dc_update"
  /\ ReferralCode_deactivateCode(loc[p].code)
  /\ Goto(p, "done", [loc[p] EXCEPT !.out = "200"])
  /\ UNCHANGED <<rewards, referrals, campaigns, ledger, trans>>

\* ------------------------------------------------------------ code issue specification
\* u1 holds an active customer code and a deactivated one, u2 holds none;
\* no request allows several codes per owner.
InitIssue ==
  /\ referrals = <<>>
  /\ rewards = <<>>
  /\ codes = [c \in {"CUS2", "OLD1"} |->
                IF c = "CUS2" THEN CodeRow("u1", "customer", 2, 10, 5)
                ELSE [CodeRow("u1", "customer", 50, 10, 0) EXCEPT !.is_active = FALSE]]
  /\ campaigns = <<CampaignRow("all", 30, 0)>>
  /\ ledger = [i \in 1..MaxRewards |-> [service |-> 0, claim |-> 0]]
  /\ trans = [i \in 1..MaxRewards |-> 0]
  /\ pc = [p \in Procs |-> "idle"]
  /\ loc = [p \in Procs |-> IdleLoc]

NextIssue ==
  \/ \E p \in CreateProcs, u \in Users, r \in Roles :
       createReferralCode_findByOwner(p, u, r, FALSE)
  \/ \E p \in CreateProcs : createReferralCode_create(p)
  \/ \E p \in CreateProcs, id \in DOMAIN codes \cup {"NOCODE"}, u \in Users :
       \E r \in ActorRoles : deactivateReferralCode_findById(p, id, u, r)
  \/ \E p \in CreateProcs : deactivateReferralCode_deactivateCode(p)
  \/ \E p \in CreateProcs, code \in DOMAIN codes, u \in Users, t \in Roles :
       createReferral_validateCode(p, code, u, t, TRUE)
  \/ \E p \in CreateProcs : createReferral_findByReferee(p)
  \/ \E p \in CreateProcs : createReferral_findActive(p)
  \/ \E p \in CreateProcs : createReferral_create(p)
  \/ \E p \in CreateProcs, ok \in BOOLEAN : createReferral_incrementUsage(p, ok)
  \/ \E p \in CreateProcs, ok \in BOOLEAN : createReferral_incrementParticipants(p, ok)

SpecIssue == InitIssue /\ [][NextIssue]_vars

\* ------------------------------------------------------------ notification specification
\* u1 holds a customer code while a campaign for every role runs, and each
\* user has a pending reward; creates and reward sweeps run while the
\* notification service answers or fails.
InitNotify ==
  /\ referrals = <<>>
  /\ rewards = <<RewardRow("u1", "referral_bonus", 10, "referral", 1, 0),
                 RewardRow("u2", "referral_bonus", 10, "referral", 1, 0)>>
  /\ codes = [c \in {"CUS2"} |-> CodeRow("u1", "customer", 2, 10, 5)]
  /\ \E a \in {"all", "driver"} : campaigns = <<CampaignRow(a, 30, 0)>>
  /\ ledger = [i \in 1..MaxRewards |-> [service |-> 0, claim |-> 0]]
  /\ trans = [i \in 1..MaxRewards |-> 0]
  /\ pc = [p \in Procs |-> "idle"]
  /\ loc = [p \in Procs |-> IdleLoc]

NextNotify ==
  \/ \E p \in CreateProcs, code \in DOMAIN codes, u \in Users, t \in Roles :
       \E b \in BOOLEAN : createReferral_validateCode(p, code, u, t, b)
  \/ \E p \in CreateProcs : createReferral_findByReferee(p)
  \/ \E p \in CreateProcs : createReferral_findActive(p)
  \/ \E p \in CreateProcs : createReferral_create(p)
  \/ \E p \in CreateProcs, ok \in BOOLEAN : createReferral_incrementUsage(p, ok)
  \/ \E p \in CreateProcs, ok \in BOOLEAN : createReferral_incrementParticipants(p, ok)
  \/ \E p \in CreateProcs : expireOldRewards_getExpiredRewards(p)
  \/ \E p \in CreateProcs, ok \in BOOLEAN : expireOldRewards_updateStatus(p, TRUE, ok)
  \/ \E id \in DOMAIN rewards : RewardExpiryPasses(id)

SpecNotify == InitNotify /\ [][NextNotify]_vars

\* ------------------------------------------------------------ codes specification
\* u1 holds two codes as a driver, the second usable once; one campaign runs
\* for drivers.
InitCodes ==
  /\ referrals = <<>>
  /\ rewards = <<>>
  /\ codes = [c \in {"DRV1", "DRV2"} |->
                IF c = "DRV1" THEN CodeRow("u1", "driver", 50, 25, 0)
                ELSE CodeRow("u1", "driver", 1, 25, 0)]
  /\ campaigns = <<CampaignRow("driver", 30, 1)>>
  /\ ledger = [i \in 1..MaxRewards |-> [service |-> 0, claim |-> 0]]
  /\ trans = [i \in 1..MaxRewards |-> 0]
  /\ pc = [p \in Procs |-> "idle"]
  /\ loc = [p \in Procs |-> IdleLoc]

SpecCodes == InitCodes /\ [][NextCreate]_vars

\* ------------------------------------------------------------ code resolution specification
\* u1 holds a code usable once, a deactivated one, an exhausted one and an
\* expired one; requests also name a code that does not exist.
InitResolve ==
  /\ referrals = <<>>
  /\ rewards = <<>>
  /\ codes = [c \in {"ONE1", "OFF1", "FULL1", "EXP1"} |->
                CASE c = "ONE1" -> CodeRow("u1", "customer", 1, 10, 0)
                  [] c = "OFF1" -> [CodeRow("u1", "customer", 50, 10, 0)
                                    EXCEPT !.is_active = FALSE]
                  [] c = "FULL1" -> [CodeRow("u1", "customer", 3, 10, 0)
                                     EXCEPT !.usage_count = 3]
                  [] OTHER -> [CodeRow("u1", "customer", 50, 10, 0)
                               EXCEPT !.past = TRUE]]
  /\ campaigns = <<CampaignRow("all", 30, 0)>>
  /\ ledger = [i \in 1..MaxRewards |-> [service |-> 0, claim |-> 0]]
  /\ trans = [i \in 1..MaxRewards |-> 0]
  /\ pc = [p \in Procs |-> "idle"]
  /\ loc = [p \in Procs |-> IdleLoc]

NextResolve ==
  \/ \E p \in CreateProcs, code \in DOMAIN codes \cup {"NOCODE"}, u \in Users :
       \E t \in Roles, b \in BOOLEAN : createReferral_validateCode(p, code, u, t, b)
  \/ \E p \in CreateProcs : createReferral_findByReferee(p)
  \/ \E p \in CreateProcs : createReferral_findActive(p)
  \/ \E p \in CreateProcs : createReferral_create(p)
  \/ \E p \in CreateProcs, ok \in BOOLEAN : createReferral_incrementUsage(p, ok)
  \/ \E p \in CreateProcs, ok \in BOOLEAN : createReferral_incrementParticipants(p, ok)

SpecResolve == InitResolve /\ [][NextResolve]_vars

\* ------------------------------------------------------------ Referral status model
\* WHERE id = ? AND status = 'pending'
CompleteWhereBlind(row) == TRUE
Referral_completeReferral_where(row) == row.status = "pending"

Referral_completeReferral_affected(id) ==
  id \in DOMAIN referrals /\ Referral_completeReferral_where(referrals[id])

\* SET status = 'completed', completion_date = CURRENT_TIMESTAMP
Referral_completeReferral(id) ==
  IF Referral_completeReferral_affected(id)
  THEN referrals' = [referrals EXCEPT ![id].status = "completed",
                                      ![id].completion_date = TRUE]
  ELSE UNCHANGED referrals

\* What completeReferral returns: the row when it updated one, else null.
CompleteReturnsRow(id) == TRUE
Referral_completeReferral_result(id) == Referral_completeReferral_affected(id)

UpdateStatusResetsBonus(id, status) ==
  referrals' = [referrals EXCEPT ![id].status = status, ![id].referrer_bonus = 0]
\* UPDATE referrals SET status = ? WHERE id = ?
Referral_updateStatus(id, status) ==
  referrals' = [referrals EXCEPT ![id].status = status]

ExpiredReferralsNeverFound == {}
\* WHERE status = 'pending' AND expiry_date < CURRENT_TIMESTAMP
Referral_getExpiredReferrals ==
  {i \in DOMAIN referrals : referrals[i].status = "pending" /\ referrals[i].past}

\* COUNT(CASE WHEN status = 'completed' THEN 1 END) ... AND referrer_id = ?
Referral_getReferralStats(referrerId) ==
  Cardinality({i \in DOMAIN referrals :
                 referrals[i].referrer_id = referrerId /\ referrals[i].status = "completed"})

\* The clock passes a referral's expiry_date.
ReferralExpiryPasses(id) ==
  /\ id \in DOMAIN referrals
  /\ ~referrals[id].past
  /\ referrals' = [referrals EXCEPT ![id].past = TRUE]
  /\ UNCHANGED <<rewards, codes, campaigns, ledger, trans, pc, loc>>

\* ------------------------------------------------------------ RewardService.checkMilestoneAchievements
Milestones == <<5, 10, 25, 50, 100>>
milestoneAmounts == <<15, 30, 75, 150, 300>>

\* existingRewards.some(r => r.reward_type === 'milestone_bonus' && r.metadata &&
\*   JSON.parse(r.metadata || '{}').milestone === milestone)
\* over the rows of findByUser, whose metadata findByUser has parsed already.
HasMilestoneReward(userId, milestone) ==
  LET rows == {i \in Reward_findByUser(userId) : rewards[i].reward_type = "milestone_bonus"}
      found(i) == JsonParse(rewards[i].metadata).value
  IN IF \E i \in rows : JsonParse(found(i)).threw THEN "throws"
     ELSE IF \E i \in rows : JsonParse(found(i)).value.milestone = milestone THEN "true"
     ELSE "false"

\* checkMilestoneAchievements returns its list (n rewards); on an exception, [].
MilestoneReturn(p, l, n) ==
  IF l.msRet = ""
  THEN Goto(p, "done", [l EXCEPT !.granted = n, !.out = "milestones"])
  ELSE Goto(p, l.msRet, [l EXCEPT !.granted = n])

\* The for loop from threshold number mi on, up to its next await.
MilestoneLoop(p, l, mi) ==
  IF mi <= Len(Milestones) /\ l.count >= Milestones[mi]
  THEN Goto(p, "pm_find", [l EXCEPT !.mi = mi])
  ELSE MilestoneReturn(p, l, l.granted)

CallCheckMilestoneAchievements(p, userId) ==
  /\ pc[p] = "idle"
  /\ Goto(p, "ms_stats", [IdleLoc EXCEPT !.op = "checkMilestoneAchievements",
                                         !.user = userId])
  /\ UNCHANGED <<rewards, referrals, codes, campaigns, ledger, trans>>

checkMilestoneAchievements_getReferralStats(p) ==
  /\ pc[p] = "ms_stats"
  /\ MilestoneLoop(p, [loc[p] EXCEPT !.count = Referral_getReferralStats(loc[p].user),
                                     !.granted = 0], 1)
  /\ UNCHANGED <<rewards, referrals, codes, campaigns, ledger, trans>>

processMilestoneReward_findByUser(p) ==
  /\ pc[p] = "pm_find"
  /\ LET has == HasMilestoneReward(loc[p].user, Milestones[loc[p].mi]) IN
     IF has = "throws" THEN MilestoneReturn(p, loc[p], 0)
     ELSE IF has = "true" THEN MilestoneLoop(p, loc[p], loc[p].mi + 1)
     ELSE Goto(p, "pm_create", loc[p])
  /\ UNCHANGED <<rewards, referrals, codes, campaigns, ledger, trans>>

processMilestoneReward_create(p) ==
  /\ pc[p] = "pm_create"
  /\ Len(rewards) < MaxRewards
  /\ Reward_create(RewardRow(loc[p].user, "milestone_bonus", milestoneAmounts[loc[p].mi],
                             "milestone", 0, Milestones[loc[p].mi]))
  /\ Goto(p, "cr_find", [loc[p] EXCEPT !.id = Len(rewards) + 1, !.crRet = "pm_credited",
                                       !.cas = FALSE, !.paid = "none"])
  /\ UNCHANGED <<referrals, codes, campaigns, ledger, trans>>

processMilestoneReward_credited(p) ==
  /\ pc[p] = "pm_credited"
  /\ IF loc[p].crRes = "error" THEN MilestoneReturn(p, loc[p], 0)
     ELSE MilestoneLoop(p, [loc[p] EXCEPT !.granted = @ + 1], loc[p].mi + 1)
  /\ UNCHANGED <<rewards, referrals, codes, campaigns, ledger, trans>>

\* ------------------------------------------------------------ ReferralController.shouldCompleteReferral
TriggerTypes == {"order_completed", "delivery_completed", "user_verified"}

MatchIgnoresTriggerType(referral, triggerType, triggerData) ==
  CASE referral.completion_condition = "first_order" ->
         triggerData.customer_id = referral.referee_id
    [] referral.completion_condition = "first_delivery" ->
         triggerData.driver_id = referral.referee_id
    [] OTHER -> triggerData.user_id = referral.referee_id

\* A DECIMAL column as the database client hands it over: as text ("5.00")
\* or, when the client is set to convert, as a number.
ReadDecimal(v, asText) == [text |-> asText, num |-> v]

\* A referral row as a query returns it.
ReadReferral(row, asText) ==
  [row EXCEPT !.minimum_order_amount = ReadDecimal(@, asText)]

\* !d : a non-empty text is truthy whatever it spells; a number is falsy when 0.
JsNot(d) == IF d.text THEN FALSE ELSE d.num = 0

\* amount >= d : a text operand is converted to the number it spells.
AmountGreaterOnly(amount, d) == amount > d.num
JsGreaterOrEqual(amount, d) == amount >= d.num

shouldCompleteReferral(referral, triggerType, triggerData) ==
  CASE referral.completion_condition = "first_order" ->
         /\ triggerType = "order_completed"
         /\ triggerData.customer_id = referral.referee_id
         /\ (JsNot(referral.minimum_order_amount)
             \/ JsGreaterOrEqual(triggerData.amount, referral.minimum_order_amount))
    [] referral.completion_condition = "first_delivery" ->
         /\ triggerType = "delivery_completed"
         /\ triggerData.driver_id = referral.referee_id
    [] referral.completion_condition = "registration" ->
         /\ triggerType = "user_verified"
         /\ triggerData.user_id = referral.referee_id
    [] OTHER -> FALSE

\* ------------------------------------------------------------ RewardService.processReferralRewards
processReferralRewards_createReferrer(p) ==
  /\ pc[p] = "pr_referrer"
  /\ Len(rewards) < MaxRewards
  /\ LET r == referrals[loc[p].rid] IN
     Reward_create(RewardRow(r.referrer_id, "referral_bonus", r.referrer_bonus,
                             "referral", loc[p].rid, 0))
  /\ Goto(p, "pr_referee", loc[p])
  /\ UNCHANGED <<referrals, codes, campaigns, ledger, trans>>

processReferralRewards_createReferee(p) ==
  /\ pc[p] = "pr_referee"
  /\ Len(rewards) < MaxRewards
  /\ LET r == referrals[loc[p].rid] IN
     Reward_create(RewardRow(r.referee_id, "referral_bonus", r.referee_bonus,
                             "referral", loc[p].rid, 0))
  /\ Goto(p, "cr_find", [loc[p] EXCEPT !.id = Len(rewards) + 1, !.crRet = "pr_credited",
                                       !.cas = FALSE, !.paid = "none"])
  /\ UNCHANGED <<referrals, codes, campaigns, ledger, trans>>

\* The pending referrals of the scan that the trigger matches, newest first.
RECURSIVE DescSeq(_)
DescSeq(S) ==
  IF S = {} THEN <<>>
  ELSE LET m == CHOOSE x \in S : \A y \in S : y <= x IN <<m>> \o DescSeq(S \ {m})

\* The trigger handler's for loop over the referrals left, up to its next await.
TriggerLoop(p, l, list) ==
  IF list = <<>> THEN Goto(p, "done", [l EXCEPT !.list = list, !.out = "200"])
  ELSE Goto(p, "tr_complete", [l EXCEPT !.list = list])

\* After the welcome bonus was credited: milestones, notifications, and back
\* to the handler that completed the referral.  An exception ends the handler.
processReferralRewards_return(p) ==
  /\ pc[p] \in {"pr_credited", "pr_milestones"}
  /\ IF pc[p] = "pr_credited"
     THEN IF loc[p].crRes = "error"
          THEN Goto(p, "done", [loc[p] EXCEPT !.out = "500"])
          ELSE Goto(p, "ms_stats", [loc[p] EXCEPT !.user = referrals[loc[p].rid].referrer_id,
                                                  !.msRet = "pr_milestones"])
     ELSE IF loc[p].prRet = "tr_next"
          THEN TriggerLoop(p, [loc[p] EXCEPT !.completed = @ + 1], Tail(loc[p].list))
          ELSE Goto(p, "done", [loc[p] EXCEPT !.out = IF loc[p].thisBound THEN "200"
                                                     ELSE "500"])
  /\ UNCHANGED <<rewards, referrals, codes, campaigns, ledger, trans>>

\* ------------------------------------------------------------ ReferralController.processReferralTrigger
processReferralTrigger_findByReferee(p, refereeId, triggerType, triggerData, thisBound, asText) ==
  /\ pc[p] = "idle"
  /\ LET pending == {i \in Referral_findByReferee(refereeId) :
                       referrals[i].status = "pending"}
         matching == SelectSeq(DescSeq(pending),
                       LAMBDA i : shouldCompleteReferral(ReadReferral(referrals[i], asText),
                                                         triggerType, triggerData))
         l == [IdleLoc EXCEPT !.op = "processReferralTrigger", !.referee = refereeId,
                              !.ttype = triggerType, !.tdata = triggerData,
                              !.thisBound = thisBound]
     IN IF pending # {} /\ ~thisBound
        THEN Goto(p, "done", [l EXCEPT !.out = "500"])
        ELSE TriggerLoop(p, l, matching)
  /\ UNCHANGED <<rewards, referrals, codes, campaigns, ledger, trans>>

processReferralTrigger_completeReferral(p) ==
  /\ pc[p] = "tr_complete"
  /\ LET id == Head(loc[p].list) IN
     /\ Referral_completeReferral(id)
     /\ IF Referral_completeReferral_result(id)
        THEN Goto(p, "pr_referrer", [loc[p] EXCEPT !.rid = id, !.prRet = "tr_next"])
        ELSE TriggerLoop(p, loc[p], Tail(loc[p].list))
  /\ UNCHANGED <<rewards, codes, campaigns, ledger, trans>>

\* ------------------------------------------------------------ ReferralController.completeReferral
completeReferral_findById(p, id, thisBound) ==
  /\ pc[p] = "idle"
  /\ LET l == [IdleLoc EXCEPT !.op = "completeReferral", !.rid = id,
                              !.thisBound = thisBound] IN
     IF id \notin DOMAIN referrals THEN Goto(p, "done", [l EXCEPT !.out = "404"])
     ELSE IF referrals[id].status # "pending"
     THEN Goto(p, "done", [l EXCEPT !.out = "400_not_pending"])
     ELSE Goto(p, "co_complete", l)
  /\ UNCHANGED <<rewards, referrals, codes, campaigns, ledger, trans>>

completeReferral_completeReferral(p) ==
  /\ pc[p] = "co_complete"
  /\ Referral_completeReferral(loc[p].rid)
  /\ IF Referral_completeReferral_result(loc[p].rid)
     THEN Goto(p, "pr_referrer", [loc[p] EXCEPT !.prRet = "co_next"])
     ELSE Goto(p, "done", [loc[p] EXCEPT !.out = "400_failed"])
  /\ UNCHANGED <<rewards, codes, campaigns, ledger, trans>>

\* ------------------------------------------------------------ CronJobService: referral expiry job
expiryJob_getExpiredReferrals(p) ==
  /\ pc[p] = "idle"
  /\ LET batch == Referral_getExpiredReferrals
         l == [IdleLoc EXCEPT !.op = "referralExpiryJob", !.batch = batch,
                              !.count = Cardinality(batch)]
     IN IF batch = {} THEN Goto(p, "done", [l EXCEPT !.out = "count"])
        ELSE Goto(p, "xr_update", l)
  /\ UNCHANGED <<rewards, referrals, codes, campaigns, ledger, trans>>

\* One turn of the loop; an exception of the update (queryOk: whether the
\* database carries it out) is caught and logged by the job, outside the loop.
expiryJob_updateStatus(p, queryOk) ==
  /\ pc[p] = "xr_update"
  /\ \E id \in loc[p].batch :
       IF queryOk
       THEN /\ Referral_updateStatus(id, "expired")
            /\ LET l == [loc[p] EXCEPT !.batch = @ \ {id}] IN
               IF l.batch = {} THEN Goto(p, "done", [l EXCEPT !.out = "count"])
               ELSE Goto(p, "xr_update", l)
       ELSE /\ UNCHANGED referrals
            /\ Goto(p, "done", [loc[p] EXCEPT !.out = "logged", !.rid = id])
  /\ UNCHANGED <<rewards, codes, campaigns, ledger, trans>>

\* ------------------------------------------------------------ lifecycle specification
\* The events the other services report about user u: an order of amount 0
\* or 5, a delivery, a verification.
TriggerEvents(u) ==
  {[type |-> "order_completed",
    data |-> [amount |-> a, user_id |-> u, customer_id |-> u, driver_id |-> u]] :
     a \in {0, 5}}
  \cup
  {[type |-> t,
    data |-> [amount |-> 0, user_id |-> u, customer_id |-> u, driver_id |-> u]] :
     t \in {"delivery_completed", "user_verified"}}

\* u2 was referred by u1 twice: as a customer with code CUS2, whose minimum
\* order amount is 0 or 5, and as a driver with code DRV1 while the drivers'
\* campaign ran.
InitLifecycle ==
  /\ \E m \in {0, 5} :
       /\ referrals = <<ReferralRow("u1", "customer", "u2", "customer", "CUS2",
                                    "first_order", 10, 10, m, 0),
                        ReferralRow("u1", "driver", "u2", "driver", "DRV1",
                                    "first_delivery", 30, 25, 0, 1)>>
       /\ codes = [c \in {"CUS2", "DRV1"} |->
                     IF c = "CUS2"
                     THEN [CodeRow("u1", "customer", 2, 10, m) EXCEPT !.usage_count = 1]
                     ELSE [CodeRow("u1", "driver", 50, 25, 0) EXCEPT !.usage_count = 1]]
  /\ rewards = <<>>
  /\ campaigns = <<[CampaignRow("driver", 30, 1) EXCEPT !.current_participants = 1]>>
  /\ ledger = [i \in 1..MaxRewards |-> [service |-> 0, claim |-> 0]]
  /\ trans = [i \in 1..MaxRewards |-> 0]
  /\ pc = [p \in Procs |-> "idle"]
  /\ loc = [p \in Procs |-> IdleLoc]

NextLifecycle ==
  \/ \E p \in LifecycleProcs, u \in Users, b \in BOOLEAN, x \in BOOLEAN :
       \E e \in TriggerEvents(u) :
         processReferralTrigger_findByReferee(p, u, e.type, e.data, b, x)
  \/ \E p \in LifecycleProcs : processReferralTrigger_completeReferral(p)
  \/ \E p \in LifecycleProcs, id \in 1..(Len(referrals) + 1), b \in BOOLEAN :
       completeReferral_findById(p, id, b)
  \/ \E p \in LifecycleProcs : completeReferral_completeReferral(p)
  \/ \E p \in LifecycleProcs : processReferralRewards_createReferrer(p)
  \/ \E p \in LifecycleProcs : processReferralRewards_createReferee(p)
  \/ \E p \in LifecycleProcs : creditReward_findById(p)
  \/ \E p \in LifecycleProcs, ok \in BOOLEAN : creditReward_credit(p, ok)
  \/ \E p \in LifecycleProcs : processReferralRewards_return(p)
  \/ \E p \in LifecycleProcs : expiryJob_getExpiredReferrals(p)
  \/ \E p \in LifecycleProcs : expiryJob_updateStatus(p, TRUE)
  \/ \E id \in DOMAIN referrals : ReferralExpiryPasses(id)

SpecLifecycle == InitLifecycle /\ [][NextLifecycle]_vars

\* ------------------------------------------------------------ trigger specification
\* u2 was referred as a customer twice, by u1 as a customer and by u1 as a
\* driver: one order of u2 matches both pending referrals.
InitTrigger ==
  /\ referrals = <<ReferralRow("u1", "customer", "u2", "customer", "CUS2",
                               "first_order", 10, 10, 0, 0),
                   ReferralRow("u1", "driver", "u2", "customer", "DRV1",
                               "first_order", 25, 10, 0, 0)>>
  /\ codes = [c \in {"CUS2", "DRV1"} |->
                IF c = "CUS2"
                THEN [CodeRow("u1", "customer", 2, 10, 0) EXCEPT !.usage_count = 1]
                ELSE [CodeRow("u1", "driver", 50, 25, 0) EXCEPT !.usage_count = 1]]
  /\ rewards = <<>>
  /\ campaigns = <<>>
  /\ ledger = [i \in 1..MaxRewards |-> [service |-> 0, claim |-> 0]]
  /\ trans = [i \in 1..MaxRewards |-> 0]
  /\ pc = [p \in Procs |-> "idle"]
  /\ loc = [p \in Procs |-> IdleLoc]

SpecTrigger == InitTrigger /\ [][NextLifecycle]_vars

\* ------------------------------------------------------------ cron specification
\* cron.schedule fires a job again after its last run has ended.
cron_again(p) ==
  /\ pc[p] = "done"
  /\ loc[p].op \in {"expireOldRewards", "referralExpiryJob"}
  /\ Goto(p, "idle", IdleLoc)
  /\ UNCHANGED <<rewards, referrals, codes, campaigns, ledger, trans>>

\* The processes that cron runs the jobs in, and the one that claims or
\* completes meanwhile.
CronProcs == 1..NCron
RequestProcs == {NCron + 1}

\* Two pending referrals of u2 and a pending reward of each user; the expiry
\* dates pass while the jobs run again and again.
InitCron ==
  /\ referrals = <<ReferralRow("u1", "customer", "u2", "customer", "CUS2",
                               "first_order", 10, 10, 0, 0),
                   ReferralRow("u1", "driver", "u2", "driver", "DRV1",
                               "first_delivery", 25, 25, 0, 0)>>
  /\ rewards = <<RewardRow("u1", "loyalty_bonus", 5, "manual", 0, 0),
                 RewardRow("u2", "loyalty_bonus", 5, "manual", 0, 0)>>
  /\ codes = <<>>
  /\ campaigns = <<>>
  /\ ledger = [i \in 1..MaxRewards |-> [service |-> 0, claim |-> 0]]
  /\ trans = [i \in 1..MaxRewards |-> 0]
  /\ pc = [p \in Procs |-> "idle"]
  /\ loc = [p \in Procs |-> IdleLoc]

NextCron ==
  \/ \E p \in CronProcs : expireOldRewards_getExpiredRewards(p)
  \/ \E p \in CronProcs, q \in BOOLEAN : expireOldRewards_updateStatus(p, q, TRUE)
  \/ \E p \in CronProcs : expiryJob_getExpiredReferrals(p)
  \/ \E p \in CronProcs, q \in BOOLEAN : expiryJob_updateStatus(p, q)
  \/ \E p \in CronProcs : cron_again(p)
  \/ \E p \in RequestProcs, id \in DOMAIN rewards :
       claimReward_findById(p, id, rewards[id].user_id)
  \/ \E p \in RequestProcs : claimReward_creditReward(p)
  \/ \E p \in RequestProcs : claimReward_creditUserAccount(p, TRUE)
  \/ \E p \in RequestProcs, id \in DOMAIN referrals : completeReferral_findById(p, id, TRUE)
  \/ \E p \in RequestProcs : completeReferral_completeReferral(p)
  \/ \E p \in RequestProcs : processReferralRewards_createReferrer(p)
  \/ \E p \in RequestProcs : processReferralRewards_createReferee(p)
  \/ \E p \in RequestProcs : creditReward_findById(p)
  \/ \E p \in RequestProcs : creditReward_credit(p, TRUE)
  \/ \E p \in RequestProcs : processReferralRewards_return(p)
  \/ \E id \in DOMAIN rewards : RewardExpiryPasses(id)
  \/ \E id \in DOMAIN referrals : ReferralExpiryPasses(id)

\* cron fires each job again and again (strong fairness of the start of each
\* job and weak fairness of the next firing), and the database carries out an
\* update that is asked again and again (strong fairness of the update that
\* succeeds).
FairCron ==
  \A p \in CronProcs :
    /\ WF_vars(cron_again(p))
    /\ SF_vars(expireOldRewards_getExpiredRewards(p))
    /\ SF_vars(expiryJob_getExpiredReferrals(p))
    /\ SF_vars(expireOldRewards_updateStatus(p, TRUE, TRUE))
    /\ SF_vars(expiryJob_updateStatus(p, TRUE))

SpecCron == InitCron /\ [][NextCron]_vars /\ FairCron

\* ------------------------------------------------------------ sweep specification
\* Each user has a pending reward and u2 has two pending referrals; expiry
\* dates pass, reward sweeps, the referral expiry job and claims run, and
\* the database may fail an update of a sweep.
InitSweep ==
  /\ referrals = <<ReferralRow("u1", "customer", "u2", "customer", "CUS2",
                               "first_order", 10, 10, 0, 0),
                   ReferralRow("u1", "driver", "u2", "driver", "DRV1",
                               "first_delivery", 25, 25, 0, 0)>>
  /\ rewards = <<RewardRow("u1", "loyalty_bonus", 5, "manual", 0, 0),
                 RewardRow("u2", "loyalty_bonus", 5, "manual", 0, 0)>>
  /\ codes = <<>>
  /\ campaigns = <<>>
  /\ ledger = [i \in 1..MaxRewards |-> [service |-> 0, claim |-> 0]]
  /\ trans = [i \in 1..MaxRewards |-> 0]
  /\ pc = [p \in Procs |-> "idle"]
  /\ loc = [p \in Procs |-> IdleLoc]

NextSweep ==
  \/ \E p \in SweepProcs : expireOldRewards_getExpiredRewards(p)
  \/ \E p \in SweepProcs, q \in BOOLEAN, ok \in BOOLEAN :
       expireOldRewards_updateStatus(p, q, ok)
  \/ \E p \in SweepProcs : expiryJob_getExpiredReferrals(p)
  \/ \E p \in SweepProcs, q \in BOOLEAN : expiryJob_updateStatus(p, q)
  \/ \E p \in SweepProcs, id \in DOMAIN rewards : claimReward_findById(p, id, rewards[id].user_id)
  \/ \E p \in SweepProcs : claimReward_creditReward(p)
  \/ \E p \in SweepProcs, ok \in BOOLEAN : claimReward_creditUserAccount(p, ok)
  \/ \E id \in DOMAIN rewards : RewardExpiryPasses(id)
  \/ \E id \in DOMAIN referrals : ReferralExpiryPasses(id)

SpecSweep == InitSweep /\ [][NextSweep]_vars

\* ------------------------------------------------------------ milestones specification
Referees == <<"r1", "r2", "r3", "r4", "r5", "r6", "r7", "r8", "r9", "r10">>

\* u1 has 4, 5 or 10 completed referrals; no milestone was granted yet.
InitMilestones ==
  /\ \E n \in {4, 5, 10} :
       referrals = [i \in 1..n |->
                      [ReferralRow("u1", "customer", Referees[i], "customer", "CUS2",
                                   "first_order", 10, 10, 5, 0)
                       EXCEPT !.status = "completed", !.completion_date = TRUE]]
  /\ rewards = <<>>
  /\ codes = <<>>
  /\ campaigns = <<>>
  /\ ledger = [i \in 1..MaxRewards |-> [service |-> 0, claim |-> 0]]
  /\ trans = [i \in 1..MaxRewards |-> 0]
  /\ pc = [p \in Procs |-> "idle"]
  /\ loc = [p \in Procs |-> IdleLoc]

NextMilestones ==
  \/ \E p \in Procs, u \in Users : CallCheckMilestoneAchievements(p, u)
  \/ \E p \in Procs : checkMilestoneAchievements_getReferralStats(p)
  \/ \E p \in Procs : processMilestoneReward_findByUser(p)
  \/ \E p \in Procs : processMilestoneReward_create(p)
  \/ \E p \in Procs : creditReward_findById(p)
  \/ \E p \in Procs, ok \in BOOLEAN : creditReward_credit(p, ok)
  \/ \E p \in Procs : processMilestoneReward_credited(p)
  \/ \E p \in Procs, id \in 1..(Len(rewards) + 1), u \in Users : claimReward_findById(p, id, u)
  \/ \E p \in Procs : claimReward_creditReward(p)
  \/ \E p \in Procs, ok \in BOOLEAN : claimReward_creditUserAccount(p, ok)

SpecMilestones == InitMilestones /\ [][NextMilestones]_vars

\* ------------------------------------------------------------ settlement specification
\* u1 has four completed referrals and a fifth, of u2, that is pending; the
\* fifth is completed and settled while rewards are claimed.
InitSettle ==
  /\ referrals = [i \in 1..5 |->
                    IF i < 5
                    THEN [ReferralRow("u1", "customer", Referees[i], "customer", "CUS2",
                                      "first_order", 10, 10, 0, 0)
                          EXCEPT !.status = "completed", !.completion_date = TRUE]
                    ELSE ReferralRow("u1", "customer", "u2", "customer", "CUS2",
                                     "first_order", 10, 10, 0, 0)]
  /\ rewards = <<>>
  /\ codes = <<>>
  /\ campaigns = <<>>
  /\ ledger = [i \in 1..MaxRewards |-> [service |-> 0, claim |-> 0]]
  /\ trans = [i \in 1..MaxRewards |-> 0]
  /\ pc = [p \in Procs |-> "idle"]
  /\ loc = [p \in Procs |-> IdleLoc]

NextSettle ==
  \/ \E p \in LifecycleProcs, id \in DOMAIN referrals : completeReferral_findById(p, id, TRUE)
  \/ \E p \in LifecycleProcs : completeReferral_completeReferral(p)
  \/ \E p \in LifecycleProcs : processReferralRewards_createReferrer(p)
  \/ \E p \in LifecycleProcs : processReferralRewards_createReferee(p)
  \/ \E p \in LifecycleProcs : creditReward_findById(p)
  \/ \E p \in LifecycleProcs, ok \in BOOLEAN : creditReward_credit(p, ok)
  \/ \E p \in LifecycleProcs : processReferralRewards_return(p)
  \/ \E p \in LifecycleProcs : checkMilestoneAchievements_getReferralStats(p)
  \/ \E p \in LifecycleProcs : processMilestoneReward_findByUser(p)
  \/ \E p \in LifecycleProcs : processMilestoneReward_create(p)
  \/ \E p \in LifecycleProcs : processMilestoneReward_credited(p)
  \/ \E p \in Procs, id \in DOMAIN rewards : claimReward_findById(p, id, rewards[id].user_id)
  \/ \E p \in Procs : claimReward_creditReward(p)
  \/ \E p \in Procs, ok \in BOOLEAN : claimReward_creditUserAccount(p, ok)

SpecSettle == InitSettle /\ [][NextSettle]_vars

\* ------------------------------------------------------------ failing inserts
\* The INSERT of Reward.create fails: the exception leaves
\* processReferralRewards through its rethrowing catch and the handler (for a
\* trigger, out of its loop) answers 500.
processReferralRewards_createThrows(p) ==
  /\ pc[p] \in {"pr_referrer", "pr_referee"}
  /\ Goto(p, "done", [loc[p] EXCEPT !.out = "500"])
  /\ UNCHANGED <<rewards, referrals, codes, campaigns, ledger, trans>>

\* u2 was referred twice by u1; the referrals are completed by the direct
\* request and by triggers, with inserts that may fail.
InitAtomic ==
  /\ referrals = <<ReferralRow("u1", "customer", "u2", "customer", "CUS2",
                               "first_order", 10, 10, 0, 0),
                   ReferralRow("u1", "driver", "u2", "driver", "DRV1",
                               "first_delivery", 25, 25, 0, 0)>>
  /\ rewards = <<>>
  /\ codes = <<>>
  /\ campaigns = <<>>
  /\ ledger = [i \in 1..MaxRewards |-> [service |-> 0, claim |-> 0]]
  /\ trans = [i \in 1..MaxRewards |-> 0]
  /\ pc = [p \in Procs |-> "idle"]
  /\ loc = [p \in Procs |-> IdleLoc]

NextAtomic ==
  \/ \E p \in LifecycleProcs : \E e \in TriggerEvents("u2") :
       processReferralTrigger_findByReferee(p, "u2", e.type, e.data, TRUE, FALSE)
  \/ \E p \in LifecycleProcs : processReferralTrigger_completeReferral(p)
  \/ \E p \in LifecycleProcs, id \in DOMAIN referrals : completeReferral_findById(p, id, TRUE)
  \/ \E p \in LifecycleProcs : completeReferral_completeReferral(p)
  \/ \E p \in LifecycleProcs : processReferralRewards_createReferrer(p)
  \/ \E p \in LifecycleProcs : processReferralRewards_createReferee(p)
  \/ \E p \in LifecycleProcs : processReferralRewards_createThrows(p)
  \/ \E p \in LifecycleProcs : creditReward_findById(p)
  \/ \E p \in LifecycleProcs, ok \in BOOLEAN : creditReward_credit(p, ok)
  \/ \E p \in LifecycleProcs : processReferralRewards_return(p)

SpecAtomic == InitAtomic /\ [][NextAtomic]_vars

\* ------------------------------------------------------------ RewardService.processFirstTimeBonus
FIRST_ORDER_BONUS == 5

\* existingRewards.some(r => r.reward_type === 'loyalty_bonus')
hasFirstTimeBonus(userId) ==
  \E i \in Reward_findByUser(userId) : rewards[i].reward_type = "loyalty_bonus"

processFirstTimeBonus_findByUser(p, userId) ==
  /\ pc[p] = "idle"
  /\ LET l == [IdleLoc EXCEPT !.op = "processFirstTimeBonus", !.user = userId] IN
     IF hasFirstTimeBonus(userId) THEN Goto(p, "done", [l EXCEPT !.out = "null"])
     ELSE Goto(p, "ft_create", l)
  /\ UNCHANGED <<rewards, referrals, codes, campaigns, ledger, trans>>

processFirstTimeBonus_create(p) ==
  /\ pc[p] = "ft_create"
  /\ Len(rewards) < MaxRewards
  /\ Reward_create(RewardRow(loc[p].user, "loyalty_bonus", FIRST_ORDER_BONUS,
                             "manual", 0, 0))
  /\ Goto(p, "cr_find", [loc[p] EXCEPT !.id = Len(rewards) + 1, !.crRet = "ft_credited",
                                       !.cas = FALSE, !.paid = "none"])
  /\ UNCHANGED <<referrals, codes, campaigns, ledger, trans>>

\* After the automatic credit: the reward is returned, an exception rethrown.
processFirstTimeBonus_return(p) ==
  /\ pc[p] = "ft_credited"
  /\ Goto(p, "done", [loc[p] EXCEPT !.out = IF loc[p].crRes = "error" THEN "throws"
                                            ELSE "reward"])
  /\ UNCHANGED <<rewards, referrals, codes, campaigns, ledger, trans>>

\* ------------------------------------------------------------ first-time bonus specification
\* No user has a reward yet.
InitFirstTime ==
  /\ referrals = <<>>
  /\ rewards = <<>>
  /\ codes = <<>>
  /\ campaigns = <<>>
  /\ ledger = [i \in 1..MaxRewards |-> [service |-> 0, claim |-> 0]]
  /\ trans = [i \in 1..MaxRewards |-> 0]
  /\ pc = [p \in Procs |-> "idle"]
  /\ loc = [p \in Procs |-> IdleLoc]

NextFirstTime ==
  \/ \E p \in Procs, u \in Users : processFirstTimeBonus_findByUser(p, u)
  \/ \E p \in Procs : processFirstTimeBonus_create(p)
  \/ \E p \in Procs : creditReward_findById(p)
  \/ \E p \in Procs, ok \in BOOLEAN : creditReward_credit(p, ok)
  \/ \E p \in Procs : processFirstTimeBonus_return(p)

SpecFirstTime == InitFirstTime /\ [][NextFirstTime]_vars

\* ------------------------------------------------------------ RewardService.processCampaignReward
\* SELECT * FROM campaigns WHERE id = ?  (0: no row)
Campaign_findById(id) == IF id \in DOMAIN campaigns THEN id ELSE 0

\* campaign.max_participants && campaign.current_participants >= campaign.max_participants
\* (max_participants 0 stands for NULL: no limit)
NeverAtCapacity(c) == FALSE
CampaignAtCapacity(c) ==
  campaigns[c].max_participants # 0
  /\ campaigns[c].current_participants >= campaigns[c].max_participants

\* The checks of processCampaignReward on the row it read.
CampaignAccepts(c) ==
  /\ c # 0
  /\ campaigns[c].is_active
  /\ campaigns[c].started /\ ~campaigns[c].ended
  /\ ~CampaignAtCapacity(c)

processCampaignReward_findById(p, userId, campaignId, customAmount) ==
  /\ pc[p] = "idle"
  /\ LET c == Campaign_findById(campaignId)
         l == [IdleLoc EXCEPT !.op = "processCampaignReward", !.user = userId,
                              !.camp = campaignId]
     IN IF CampaignAccepts(c)
        THEN Goto(p, "cp_create",
                  [l EXCEPT !.amount = IF customAmount # 0 THEN customAmount
                                       ELSE campaigns[c].bonus_amount])
        ELSE Goto(p, "done", [l EXCEPT !.out = "null"])
  /\ UNCHANGED <<rewards, referrals, codes, campaigns, ledger, trans>>

processCampaignReward_create(p) ==
  /\ pc[p] = "cp_create"
  /\ Len(rewards) < MaxRewards
  /\ Reward_create(RewardRow(loc[p].user, "campaign_bonus", loc[p].amount,
                             "campaign", loc[p].camp, 0))
  /\ Goto(p, "cp_increment", [loc[p] EXCEPT !.id = Len(rewards) + 1])
  /\ UNCHANGED <<referrals, codes, campaigns, ledger, trans>>

processCampaignReward_incrementParticipants(p) ==
  /\ pc[p] = "cp_increment"
  /\ Campaign_incrementParticipants(loc[p].camp)
  /\ Goto(p, "done", [loc[p] EXCEPT !.out = "reward"])
  /\ UNCHANGED <<rewards, referrals, codes, ledger, trans>>

\* ------------------------------------------------------------ Campaign.decrementParticipants
DecrementUnfloored(a, b) == a
\* GREATEST(a, b) of MySQL.
Greatest(a, b) == IF a >= b THEN a ELSE b

\* UPDATE campaigns SET current_participants = GREATEST(current_participants - 1, 0)
\* WHERE id = ?
Campaign_decrementParticipants(id) ==
  campaigns' = [campaigns EXCEPT ![id].current_participants = Greatest(@ - 1, 0)]

\* The update of decrementParticipants; an id that matches no row updates nothing.
decrementParticipants_update(p, id) ==
  /\ pc[p] = "idle"
  /\ IF Campaign_findById(id) # 0
     THEN Campaign_decrementParticipants(id)
     ELSE UNCHANGED campaigns
  /\ Goto(p, "dp_find", [IdleLoc EXCEPT !.op = "decrementParticipants", !.camp = id])
  /\ UNCHANGED <<rewards, referrals, codes, ledger, trans>>

\* return this.findById(id): count holds the counter of the row read back.
decrementParticipants_findById(p) ==
  /\ pc[p] = "dp_find"
  /\ LET c == Campaign_findById(loc[p].camp)
     IN Goto(p, "done",
             [loc[p] EXCEPT !.count = IF c # 0 THEN campaigns[c].current_participants ELSE 0,
                            !.out = IF c # 0 THEN "row" ELSE "undefined"])
  /\ UNCHANGED <<rewards, referrals, codes, campaigns, ledger, trans>>

\* ------------------------------------------------------------ participants specification
\* One running campaign for every audience, without a limit and with no
\* participant yet; creates and campaign settlements count participants up
\* while decrementParticipants is applied.
InitParticipants ==
  /\ referrals = <<>>
  /\ rewards = <<>>
  /\ codes = [c \in {"CUS2", "DRV1"} |->
                IF c = "CUS2" THEN CodeRow("u1", "customer", 2, 10, 5)
                ELSE CodeRow("u1", "driver", 50, 25, 0)]
  /\ campaigns = <<CampaignRow("all", 20, 0)>>
  /\ ledger = [i \in 1..MaxRewards |-> [service |-> 0, claim |-> 0]]
  /\ trans = [i \in 1..MaxRewards |-> 0]
  /\ pc = [p \in Procs |-> "idle"]
  /\ loc = [p \in Procs |-> IdleLoc]

NextParticipants ==
  \/ \E p \in CreateProcs, code \in DOMAIN codes, u \in Users, t \in Roles :
       createReferral_validateCode(p, code, u, t, TRUE)
  \/ \E p \in CreateProcs : createReferral_findByReferee(p)
  \/ \E p \in CreateProcs : createReferral_findActive(p)
  \/ \E p \in CreateProcs : createReferral_create(p)
  \/ \E p \in CreateProcs, ok \in BOOLEAN : createReferral_incrementUsage(p, ok)
  \/ \E p \in CreateProcs, ok \in BOOLEAN : createReferral_incrementParticipants(p, ok)
  \/ \E p \in CreateProcs, u \in Users, c \in 1..(Len(campaigns) + 1) :
       processCampaignReward_findById(p, u, c, 0)
  \/ \E p \in CreateProcs : processCampaignReward_create(p)
  \/ \E p \in CreateProcs : processCampaignReward_incrementParticipants(p)
  \/ \E p \in Procs, c \in 1..(Len(campaigns) + 1) : decrementParticipants_update(p, c)
  \/ \E p \in Procs : decrementParticipants_findById(p)

SpecParticipants == InitParticipants /\ [][NextParticipants]_vars

\* ------------------------------------------------------------ campaign specification
\* Campaigns: 1 running with one slot left, 2 deactivated, 3 ended, 4 not yet
\* started, 5 running and full, 6 running without a limit.
InitCampaign ==
  /\ campaigns = <<CampaignRow("driver", 30, 1),
                   [CampaignRow("driver", 30, 5) EXCEPT !.is_active = FALSE],
                   [CampaignRow("driver", 30, 5) EXCEPT !.ended = TRUE],
                   [CampaignRow("driver", 30, 5) EXCEPT !.started = FALSE],
                   [CampaignRow("driver", 30, 1) EXCEPT !.current_participants = 1],
                   CampaignRow("all", 20, 0)>>
  /\ referrals = <<>>
  /\ rewards = <<>>
  /\ codes = <<>>
  /\ ledger = [i \in 1..MaxRewards |-> [service |-> 0, claim |-> 0]]
  /\ trans = [i \in 1..MaxRewards |-> 0]
  /\ pc = [p \in Procs |-> "idle"]
  /\ loc = [p \in Procs |-> IdleLoc]

NextCampaign ==
  \/ \E p \in CampaignProcs, u \in Users, c \in 1..(Len(campaigns) + 1), a \in {0, 7} :
       processCampaignReward_findById(p, u, c, a)
  \/ \E p \in CampaignProcs : processCampaignReward_create(p)
  \/ \E p \in CampaignProcs : processCampaignReward_incrementParticipants(p)

SpecCampaign == InitCampaign /\ [][NextCampaign]_vars

\* ------------------------------------------------------------ Campaign.update
\* The bonus amounts a campaign can be given.
CampaignBonuses == {30, 40}

\* UPDATE campaigns SET name = ?, ..., bonus_amount = ?, ... WHERE id = ?
\* (of the columns it sets, bonus_amount is the one the model keeps a value for
\* that the request changes).
Campaign_update(id, bonus) ==
  /\ id \in DOMAIN campaigns
  /\ campaigns' = [campaigns EXCEPT ![id].bonus_amount = bonus]
  /\ UNCHANGED <<rewards, referrals, codes, ledger, trans, pc, loc>>

\* ------------------------------------------------------------ terms specification
\* A customer code of u1 (bonus 10, minimum order 5), a driver code of u1 and
\* a running campaign for every audience (bonus 30), under which u2 was
\* referred as a driver with the driver code:
\* referrals are created, completed, expired and settled while the code is
\* deactivated and the campaign's bonus is changed.
InitTerms ==
  /\ referrals = <<ReferralRow("u1", "driver", "u2", "driver", "DRV1",
                               getCompletionCondition("driver"), 30,
                               getRefereeBonus("driver"), 0, 1)>>
  /\ rewards = <<>>
  /\ codes = [c \in {"CUS2", "DRV1"} |->
                IF c = "CUS2" THEN CodeRow("u1", "customer", 2, 10, 5)
                ELSE [CodeRow("u1", "driver", 50, 25, 0) EXCEPT !.usage_count = 1]]
  /\ campaigns = <<[CampaignRow("all", 30, 0) EXCEPT !.current_participants = 1]>>
  /\ ledger = [i \in 1..MaxRewards |-> [service |-> 0, claim |-> 0]]
  /\ trans = [i \in 1..MaxRewards |-> 0]
  /\ pc = [p \in Procs |-> "idle"]
  /\ loc = [p \in Procs |-> IdleLoc]

NextTerms ==
  \/ \E p \in CreateProcs, code \in DOMAIN codes, t \in Roles :
       createReferral_validateCode(p, code, "u2", t, TRUE)
  \/ \E p \in CreateProcs : createReferral_findByReferee(p)
  \/ \E p \in CreateProcs : createReferral_findActive(p)
  \/ \E p \in CreateProcs : createReferral_create(p)
  \/ \E p \in CreateProcs : createReferral_incrementUsage(p, TRUE)
  \/ \E p \in CreateProcs : createReferral_incrementParticipants(p, TRUE)
  \/ \E p \in CreateProcs, id \in DOMAIN codes :
       deactivateReferralCode_findById(p, id, "u1", "customer")
  \/ \E p \in CreateProcs : deactivateReferralCode_deactivateCode(p)
  \/ \E id \in DOMAIN campaigns, b \in CampaignBonuses : Campaign_update(id, b)
  \/ \E p \in LifecycleProcs, id \in DOMAIN referrals : completeReferral_findById(p, id, TRUE)
  \/ \E p \in LifecycleProcs : completeReferral_completeReferral(p)
  \/ \E p \in LifecycleProcs : processReferralRewards_createReferrer(p)
  \/ \E p \in LifecycleProcs : processReferralRewards_createReferee(p)
  \/ \E p \in LifecycleProcs : creditReward_findById(p)
  \/ \E p \in LifecycleProcs : creditReward_credit(p, TRUE)
  \/ \E p \in LifecycleProcs : processReferralRewards_return(p)
  \/ \E p \in Procs : expiryJob_getExpiredReferrals(p)
  \/ \E p \in Procs : expiryJob_updateStatus(p, TRUE)
  \/ \E id \in DOMAIN referrals : ReferralExpiryPasses(id)

SpecTerms == InitTerms /\ [][NextTerms]_vars

\* ------------------------------------------------------------ RewardService.bulkProcessRewards
\* The callers of bulkProcessRewards; the function that a call awaits runs in
\* the process Callee of the caller.
BulkProcs == 1..NBulk
Callee(b) == b + NBulk

\* The request types of the switch and the requests of a batch: a campaign
\* reward, a first-time bonus, and a request of a type the switch does not
\* know.
BulkTypes == {"campaign", "first_time"}
BulkRequests ==
  {[type |-> "campaign", user_id |-> "u1", campaign_id |-> 1],
   [type |-> "first_time", user_id |-> "u1", campaign_id |-> 0],
   [type |-> "first_time", user_id |-> "u2", campaign_id |-> 0],
   [type |-> "bonus", user_id |-> "u2", campaign_id |-> 0]}
BulkBatches == UNION {[1..n -> BulkRequests] : n \in 0..MaxBatch}

FailedRequestDropped(results, request, out) ==
  IF out = "throws" THEN results
  ELSE Append(results, [success |-> TRUE, request |-> request])
\* results.push({success: true, request, reward}) after the switch, and
\* results.push({success: false, request, error}) in the catch of the loop body.
bulkProcessRewards_push(results, request, out) ==
  Append(results, [success |-> out # "throws", request |-> request])

\* list holds rewardRequests and count the number of requests the loop has
\* gone through.
bulkProcessRewards_call(b, rewardRequests) ==
  /\ pc[b] = "idle" /\ pc[Callee(b)] = "idle"
  /\ Goto(b, "bk_loop", [IdleLoc EXCEPT !.op = "bulkProcessRewards",
                                        !.list = rewardRequests])
  /\ UNCHANGED <<rewards, referrals, codes, campaigns, ledger, trans>>

\* The request the loop of b is at.
BulkRequest(b) == loc[b].list[loc[b].count + 1]
BulkAt(b, type) ==
  /\ pc[b] = "bk_loop" /\ loc[b].count < Len(loc[b].list)
  /\ BulkRequest(b).type = type

\* case 'campaign' and case 'first_time': the call of the function.
bulkProcessRewards_campaign(b) ==
  /\ BulkAt(b, "campaign")
  /\ processCampaignReward_findById(Callee(b), BulkRequest(b).user_id,
                                    BulkRequest(b).campaign_id, 0)

bulkProcessRewards_firstTime(b) ==
  /\ BulkAt(b, "first_time")
  /\ processFirstTimeBonus_findByUser(Callee(b), BulkRequest(b).user_id)

\* default: the request is logged and the loop continues.
bulkProcessRewards_default(b) ==
  /\ pc[b] = "bk_loop" /\ loc[b].count < Len(loc[b].list)
  /\ BulkRequest(b).type \notin BulkTypes
  /\ Goto(b, "bk_loop", [loc[b] EXCEPT !.count = @ + 1])
  /\ UNCHANGED <<rewards, referrals, codes, campaigns, ledger, trans>>

\* The awaited function has returned or thrown: the result is pushed and the
\* loop goes to the next request.
bulkProcessRewards_result(b) ==
  /\ pc[b] = "bk_loop" /\ loc[b].count < Len(loc[b].list)
  /\ pc[Callee(b)] = "done"
  /\ pc' = [pc EXCEPT ![Callee(b)] = "idle"]
  /\ loc' = [loc EXCEPT ![Callee(b)] = IdleLoc,
                        ![b].count = @ + 1,
                        ![b].results = bulkProcessRewards_push(@, BulkRequest(b),
                                                               loc[Callee(b)].out)]
  /\ UNCHANGED <<rewards, referrals, codes, campaigns, ledger, trans>>

\* return results
bulkProcessRewards_return(b) ==
  /\ pc[b] = "bk_loop" /\ loc[b].count = Len(loc[b].list)
  /\ Goto(b, "done", [loc[b] EXCEPT !.out = "results"])
  /\ UNCHANGED <<rewards, referrals, codes, campaigns, ledger, trans>>

\* ------------------------------------------------------------ bulk specification
\* One running campaign without a limit and no reward yet.
InitBulk ==
  /\ referrals = <<>>
  /\ rewards = <<>>
  /\ codes = <<>>
  /\ campaigns = <<CampaignRow("all", 20, 0)>>
  /\ ledger = [i \in 1..MaxRewards |-> [service |-> 0, claim |-> 0]]
  /\ trans = [i \in 1..MaxRewards |-> 0]
  /\ pc = [p \in Procs |-> "idle"]
  /\ loc = [p \in Procs |-> IdleLoc]

NextBulk ==
  \/ \E b \in BulkProcs, batch \in BulkBatches : bulkProcessRewards_call(b, batch)
  \/ \E b \in BulkProcs : bulkProcessRewards_campaign(b)
  \/ \E b \in BulkProcs : bulkProcessRewards_firstTime(b)
  \/ \E b \in BulkProcs : bulkProcessRewards_default(b)
  \/ \E b \in BulkProcs : bulkProcessRewards_result(b)
  \/ \E b \in BulkProcs : bulkProcessRewards_return(b)
  \/ \E b \in BulkProcs : processCampaignReward_create(Callee(b))
  \/ \E b \in BulkProcs : processCampaignReward_incrementParticipants(Callee(b))
  \/ \E b \in BulkProcs : processFirstTimeBonus_create(Callee(b))
  \/ \E b \in BulkProcs : creditReward_findById(Callee(b))
  \/ \E b \in BulkProcs, ok \in BOOLEAN : creditReward_credit(Callee(b), ok)
  \/ \E b \in BulkProcs : processFirstTimeBonus_return(Callee(b))

SpecBulk == InitBulk /\ [][NextBulk]_vars

\* ------------------------------------------------------------ matching specification
MatchTriggerTypes == TriggerTypes \cup {"order_cancelled"}

MatchPayloads ==
  {[amount |-> a, user_id |-> u, customer_id |-> c, driver_id |-> d] :
     c \in Users, d \in Users, u \in Users, a \in {0, 5}}

\* One call of shouldCompleteReferral on referral 1 as read from the table.
shouldCompleteReferral_call(p, triggerType, triggerData, asText) ==
  /\ pc[p] = "idle"
  /\ Goto(p, "done",
          [IdleLoc EXCEPT !.op = "shouldCompleteReferral", !.rid = 1,
                          !.ttype = triggerType, !.tdata = triggerData,
                          !.out = IF shouldCompleteReferral(ReadReferral(referrals[1], asText),
                                                            triggerType, triggerData)
                                  THEN "true" ELSE "false"])
  /\ UNCHANGED <<rewards, referrals, codes, campaigns, ledger, trans>>

\* One pending referral of u2 with any completion condition and a minimum
\* order amount of 0 or 5.
InitMatch ==
  /\ \E t \in Roles, m \in {0, 5} :
       referrals = <<ReferralRow("u1", "customer", "u2", t, "CUS2",
                                 getCompletionCondition(t), 10, getRefereeBonus(t), m, 0)>>
  /\ rewards = <<>>
  /\ codes = <<>>
  /\ campaigns = <<>>
  /\ ledger = [i \in 1..MaxRewards |-> [service |-> 0, claim |-> 0]]
  /\ trans = [i \in 1..MaxRewards |-> 0]
  /\ pc = [p \in Procs |-> "idle"]
  /\ loc = [p \in Procs |-> IdleLoc]

NextMatch ==
  \E t \in MatchTriggerTypes, d \in MatchPayloads, x \in BOOLEAN :
    shouldCompleteReferral_call(1, t, d, x)

SpecMatch == InitMatch /\ [][NextMatch]_vars

\* ------------------------------------------------------------ claims on crediting
CreditCalls(id) == {p \in Procs : loc[p].op = "creditReward" /\ loc[p].id = id}
ClaimCalls(id) == {p \in Procs : loc[p].op = "claimReward" /\ loc[p].id = id}
\* The claim calls on reward id that have executed Reward.creditReward.
ClaimAttempts(id) ==
  {p \in ClaimCalls(id) : loc[p].cas \/ (pc[p] = "done" /\ loc[p].out = "400_failed")}

\* C1: creditReward is idempotent: however often it is invoked on a reward, the
\* ledger is credited at most once for it by creditReward, and a creditReward
\* call whose ledger credit succeeded has made the pending->credited transition.
C1_CreditRewardIdempotent ==
  \A id \in DOMAIN rewards :
    /\ ledger[id].service <= 1
    /\ \A p \in CreditCalls(id) :
         (pc[p] = "done" /\ loc[p].paid = "ok") => trans[id] = 1

\* C2: no double-crediting across paths: over creditReward and claimReward
\* together, the ledger credits a reward's amount at most once.
C2_NoDoubleCreditAcrossPaths ==
  \A id \in DOMAIN rewards : ledger[id].service + ledger[id].claim <= 1

\* C3: a reward's status is changed to credited at most once and only from
\* pending: of the Reward.creditReward attempts on one reward at most one
\* observes success, and once any attempt was made the reward has made its one
\* transition (or had left pending through expiry before).
C3_CreditIsCompareAndSet ==
  \A id \in DOMAIN rewards :
    /\ trans[id] <= 1
    /\ Cardinality({p \in Procs : loc[p].id = id /\ loc[p].cas}) = trans[id]
    /\ ClaimAttempts(id) # {} => (trans[id] = 1 \/ rewards[id].status = "expired")

\* C3 witness: two claims raced on one reward; one won, the other saw a no-op.
C3_Witness ==
  \E id \in DOMAIN rewards : \E p, q \in ClaimAttempts(id) :
    /\ p # q
    /\ loc[p].cas /\ ~loc[q].cas
    /\ pc[q] = "done" /\ loc[q].out = "400_failed"

\* C4: creditReward changes the status only after the ledger reported success:
\* a call that made the transition had a successful ledger call, a call whose
\* ledger call failed ends with an error without having changed the status, and
\* while only creditReward has run a reward the ledger never credited is pending.
C4_TransitionOnlyAfterLedgerSuccess ==
  /\ \A p \in Procs : loc[p].op = "creditReward" =>
       /\ loc[p].cas => loc[p].paid = "ok"
       /\ (pc[p] = "done" /\ loc[p].paid = "failed") =>
            (loc[p].out = "error" /\ ~loc[p].cas)
  /\ (\A q \in Procs : loc[q].op \in {"none", "creditReward"}) =>
       \A id \in DOMAIN rewards :
         ledger[id].service = 0 => rewards[id].status = "pending"

\* C4 witness: a creditReward call whose ledger call failed has returned and
\* the reward is still pending.
C4_Witness ==
  \E p \in Procs :
    /\ loc[p].op = "creditReward" /\ pc[p] = "done"
    /\ loc[p].paid = "failed" /\ loc[p].out = "error"
    /\ rewards[loc[p].id].status = "pending"

\* C5: a reward whose status is credited has had a successful ledger call made
\* for it (once no claim on it is still waiting for the ledger's answer).
C5_CreditedOnlyAfterLedgerSuccess ==
  \A id \in DOMAIN rewards :
    (/\ rewards[id].status = "credited"
     /\ \A p \in Procs : ~(pc[p] = "cl_ledger" /\ loc[p].id = id))
    => ledger[id].service + ledger[id].claim >= 1

\* C9: a reward that was credited keeps status credited: the sweep never moves
\* it to expired.
C9_CreditedNeverExpired ==
  \A id \in DOMAIN rewards : trans[id] >= 1 => rewards[id].status = "credited"

\* ------------------------------------------------------------ claims on creation
CreateCalls == {p \in Procs : loc[p].op = "createReferral"}
\* The create calls whose code is owned by the referee.
SelfCalls ==
  {p \in CreateCalls : loc[p].code \in DOMAIN codes
                       /\ codes[loc[p].code].owner_id = loc[p].referee}

\* C6: at most one non-cancelled Referral exists per (referrer_id, referee_id,
\* referrer_type, referee_type) tuple, also when creates for one tuple race.
C6_OneReferralPerTuple ==
  \A i, j \in DOMAIN referrals :
    (/\ i # j
     /\ referrals[i].status # "cancelled" /\ referrals[j].status # "cancelled")
    => ~SameTuple(referrals[i], referrals[j])

\* C6 witness: two creates for one tuple both passed the existing-referral
\* check; one inserted the row, the other's insert was refused.
C6_Witness ==
  \E p, q \in CreateCalls :
    /\ p # q /\ loc[p].rid # 0
    /\ pc[q] = "done" /\ loc[q].out = "500" /\ loc[q].thisBound
    /\ loc[q].referee = loc[p].referee /\ loc[q].reType = loc[p].reType
    /\ codes[loc[q].code].owner_id = codes[loc[p].code].owner_id
    /\ codes[loc[q].code].owner_type = codes[loc[p].code].owner_type

\* Nothing was written for a self-referral: no referral of a user by themself
\* exists, and no usage or participant count exceeds the referrals that were
\* created with the code or campaign.
NothingCreatedForSelf ==
  /\ \A i \in DOMAIN referrals : referrals[i].referrer_id # referrals[i].referee_id
  /\ \A c \in DOMAIN codes :
       codes[c].usage_count
         <= Cardinality({i \in DOMAIN referrals : referrals[i].referral_code = c})
  /\ \A k \in DOMAIN campaigns :
       campaigns[k].current_participants
         <= Cardinality({i \in DOMAIN referrals : referrals[i].campaign_id = k})

\* C7 as stated: a create whose code is owned by the referee fails with the
\* self-referral error, whatever the two roles, and writes nothing.
C7_SelfReferralError ==
  /\ \A p \in SelfCalls :
       pc[p] = "done" /\ loc[p].rid = 0 /\ loc[p].out = "400_self_referral"
  /\ NothingCreatedForSelf

\* C7 amended: a create whose code is owned by the referee fails, whatever
\* the two roles, and writes nothing: with the self-referral error, or, only
\* when the code is not usable, with the invalid-code error.
C7_SelfReferralAlwaysFails ==
  /\ \A p \in SelfCalls :
       /\ pc[p] = "done" /\ loc[p].rid = 0
       /\ loc[p].out \in {"400_self_referral", "400_invalid_code"}
       /\ loc[p].out = "400_invalid_code" => ~ReferralCode_validateCode(loc[p].code)
  /\ NothingCreatedForSelf

\* C7 witness: a self-referral across two different roles was rejected while a
\* referral made with the same code exists.
C7_Witness ==
  \E p \in SelfCalls :
    /\ pc[p] = "done" /\ loc[p].out = "400_self_referral"
    /\ codes[loc[p].code].owner_type # loc[p].reType
    /\ \E i \in DOMAIN referrals : referrals[i].referral_code = loc[p].code


\* ------------------------------------------------------------ claims on the referral lifecycle
\* C8: referral status is monotonic: no step of any operation (trigger
\* completion, direct completion, expiry job) changes the status of a referral
\* that is no longer pending; in particular a referral completed while an
\* expiry job is between its scan and its write is not moved to expired.
C8_ReferralStatusMonotonic ==
  [][\A i \in DOMAIN referrals :
       referrals[i].status # "pending" => referrals'[i].status = referrals[i].status]_vars

\* ------------------------------------------------------------ claims on milestones
MilestoneRewards(userId, milestone) ==
  {i \in DOMAIN rewards : /\ rewards[i].user_id = userId
                          /\ rewards[i].reward_type = "milestone_bonus"
                          /\ rewards[i].metadata.milestone = milestone}

\* C10: for every user and every milestone threshold, at most one
\* milestone_bonus reward tagged with that milestone exists for that user,
\* however many checkMilestoneAchievements calls run, one after another or
\* concurrently, with the same completed-referral count.
C10_OneMilestoneRewardPerUser ==
  \A u \in Users : \A mi \in DOMAIN Milestones :
    Cardinality(MilestoneRewards(u, Milestones[mi])) <= 1


\* ------------------------------------------------------------ claims on settlement
ReferralRewards(i, userId) ==
  {k \in DOMAIN rewards : /\ rewards[k].source_type = "referral"
                          /\ rewards[k].source_id = i
                          /\ rewards[k].user_id = userId}

\* The handlers whose completeReferral call on referral i updated the row.
Completers(i) == {p \in Procs : loc[p].rid = i /\ loc[p].prRet # ""}

\* C11: rewards are settled once per completed referral: of the triggers and
\* direct completions that race on one pending referral only one gets the
\* completion and runs settlement, so at most one referrer reward and at most
\* one referee reward with that referral as source exist.
C11_SettledOncePerReferral ==
  \A i \in DOMAIN referrals :
    /\ Cardinality(Completers(i)) <= 1
    /\ Cardinality(ReferralRewards(i, referrals[i].referrer_id)) <= 1
    /\ Cardinality(ReferralRewards(i, referrals[i].referee_id)) <= 1

\* C11 witness: a direct completion and a trigger raced on one referral; the
\* direct completion lost (its update changed no row) and the trigger settled
\* both rewards.
C11_Witness ==
  \E p, q \in Procs : \E i \in DOMAIN referrals :
    /\ loc[p].op = "processReferralTrigger" /\ p \in Completers(i)
    /\ loc[q].op = "completeReferral" /\ loc[q].rid = i
    /\ pc[q] = "done" /\ loc[q].out = "400_failed"
    /\ ReferralRewards(i, referrals[i].referrer_id) # {}
    /\ ReferralRewards(i, referrals[i].referee_id) # {}

C13_UsageWithinMax ==
  \A c \in DOMAIN codes : codes[c].usage_count <= codes[c].max_usage

\* The referrals, other than the one the call itself inserted, for the tuple
\* of a create call with locals l: the owner of its code and the owner's role,
\* the referee and the referee's role.
TupleReferrals(l) ==
  {i \in DOMAIN referrals :
     /\ i # l.rid
     /\ referrals[i].referrer_id = codes[l.code].owner_id
     /\ referrals[i].referrer_type = codes[l.code].owner_type
     /\ referrals[i].referee_id = l.referee
     /\ referrals[i].referee_type = l.reType}

C14_ParticipantsWithinMax ==
  \A c \in DOMAIN campaigns :
    campaigns[c].max_participants # 0
      => campaigns[c].current_participants <= campaigns[c].max_participants

\* The campaign settlements in flight or finished.
CampaignCalls == {p \in Procs : loc[p].op = "processCampaignReward"}

\* The campaign is missing, inactive, outside its window or at capacity.
CampaignUnavailable(c) ==
  \/ c \notin DOMAIN campaigns
  \/ ~campaigns[c].is_active
  \/ ~campaigns[c].started
  \/ campaigns[c].ended
  \/ (campaigns[c].max_participants # 0
      /\ campaigns[c].current_participants >= campaigns[c].max_participants)

\* C15: a campaign settlement returns null, creates no reward and leaves the
\* participant counter alone when the campaign it reads is missing, inactive,
\* outside its window or at capacity; otherwise it creates one pending
\* campaign_bonus reward and then increments the counter by exactly one.
C15_CampaignSettlement ==
  [][\A p \in Procs :
       /\ (pc[p] = "idle" /\ pc'[p] # "idle" /\ loc'[p].op = "processCampaignReward")
          => /\ rewards' = rewards /\ campaigns' = campaigns
             /\ IF CampaignUnavailable(loc'[p].camp)
                THEN pc'[p] = "done" /\ loc'[p].out = "null"
                ELSE pc'[p] = "cp_create"
       /\ (pc[p] = "cp_create" /\ pc'[p] # "cp_create")
          => /\ Len(rewards') = Len(rewards) + 1 /\ campaigns' = campaigns
             /\ rewards'[Len(rewards')].user_id = loc[p].user
             /\ rewards'[Len(rewards')].reward_type = "campaign_bonus"
             /\ rewards'[Len(rewards')].status = "pending"
             /\ rewards'[Len(rewards')].source_id = loc[p].camp
             /\ pc'[p] = "cp_increment"
       /\ (pc[p] = "cp_increment" /\ pc'[p] # "cp_increment")
          => /\ rewards' = rewards
             /\ campaigns' = [campaigns EXCEPT ![loc[p].camp].current_participants = @ + 1]
             /\ pc'[p] = "done" /\ loc'[p].out = "reward"]_vars

\* C15 witness: a settlement for the full campaign returned null while one
\* for the campaign with a free slot created its reward and took the slot.
C15_Witness ==
  \E p, q \in CampaignCalls :
    /\ pc[p] = "done" /\ loc[p].out = "null" /\ loc[p].camp = 5
    /\ campaigns[5].current_participants = 1
    /\ pc[q] = "done" /\ loc[q].out = "reward" /\ loc[q].camp = 1
    /\ campaigns[1].current_participants = 1
    /\ Len(rewards) = 1 /\ rewards[1].reward_type = "campaign_bonus"


\* ------------------------------------------------------------ claims on trigger matching
\* The trigger requests, run as methods of the controller, that have ended.
TriggersDone ==
  {p \in Procs : loc[p].op = "processReferralTrigger" /\ pc[p] = "done"
                 /\ loc[p].thisBound}

\* An order_completed event of the referral's referee.
OrderEventFor(l, i) ==
  /\ l.ttype = "order_completed"
  /\ l.referee = referrals[i].referee_id
  /\ l.tdata.customer_id = referrals[i].referee_id

MatchCases(referral, triggerType, triggerData) ==
  \/ /\ referral.completion_condition = "first_order"
     /\ triggerType = "order_completed"
     /\ triggerData.customer_id = referral.referee_id
     /\ (referral.minimum_order_amount = 0
         \/ triggerData.amount >= referral.minimum_order_amount)
  \/ /\ referral.completion_condition = "first_delivery"
     /\ triggerType = "delivery_completed"
     /\ triggerData.driver_id = referral.referee_id
  \/ /\ referral.completion_condition = "registration"
     /\ triggerType = "user_verified"
     /\ triggerData.user_id = referral.referee_id

C18_SettlementCreditsReferee ==
  \A i \in DOMAIN referrals : \A p \in Completers(i) :
    pc[p] = "done"
    => /\ \E k \in DOMAIN rewards :
            /\ ReferralRewards(i, referrals[i].referrer_id) = {k}
            /\ rewards[k].amount = referrals[i].referrer_bonus
            /\ rewards[k].status = "pending"
       /\ \E k \in DOMAIN rewards :
            /\ ReferralRewards(i, referrals[i].referee_id) = {k}
            /\ rewards[k].amount = referrals[i].referee_bonus
            /\ rewards[k].status = "credited"

\* ------------------------------------------------------------ claims on created referrals
\* C19: a referral produced by a successful create is pending, its
\* completion_condition follows from the referee's role alone (customer ->
\* first_order, driver -> first_delivery, restaurant -> registration), its
\* referrer_bonus is the bonus of the first running campaign for the
\* referrer's role when there is one and the code's bonus otherwise, its
\* referee_bonus is the default of the referee's role, and its
\* minimum_order_amount is the code's.
C19_CreatedReferralTerms ==
  \A i \in DOMAIN referrals :
    LET r == referrals[i]
        c == codes[r.referral_code]
        running == {k \in DOMAIN campaigns :
                      /\ campaigns[k].is_active
                      /\ campaigns[k].started /\ ~campaigns[k].ended
                      /\ campaigns[k].target_audience \in {r.referrer_type, "all"}}
    IN /\ r.status = "pending"
       /\ r.completion_condition =
            (CASE r.referee_type = "customer" -> "first_order"
               [] r.referee_type = "driver" -> "first_delivery"
               [] r.referee_type = "restaurant" -> "registration")
       /\ r.referrer_id = c.owner_id /\ r.referrer_type = c.owner_type
       /\ IF running = {}
          THEN r.campaign_id = 0 /\ r.referrer_bonus = c.bonus_amount
          ELSE /\ r.campaign_id \in running
               /\ \A k \in running : r.campaign_id <= k
               /\ r.referrer_bonus = campaigns[r.campaign_id].bonus_amount
       /\ r.referee_bonus = getRefereeBonus(r.referee_type)
       /\ r.minimum_order_amount = c.minimum_order_amount

\* C19 witness: two referrals were created, one under the drivers' campaign
\* with the campaign's bonus instead of the code's, for a restaurant referee,
\* and one without a campaign with the code's bonus and minimum order amount.
C19_Witness ==
  \E i, j \in DOMAIN referrals :
    /\ referrals[i].campaign_id = 1
    /\ referrals[i].referrer_bonus # codes[referrals[i].referral_code].bonus_amount
    /\ referrals[i].referee_type = "restaurant"
    /\ referrals[j].campaign_id = 0
    /\ referrals[j].minimum_order_amount = 5
    /\ referrals[j].completion_condition = "first_order"


\* ------------------------------------------------------------ claims on code resolution
\* C21: the code lookup of a create returns a code only if it is usable at
\* that moment (active, usage_count < max_usage, not expired); for an
\* inactive, exhausted or expired code the create gets the same outcome as
\* for a code that does not exist, and it ends there without creating a
\* referral or changing any table.
C21_ResolveOnlyUsable ==
  [][\A p \in CreateProcs :
       (pc[p] = "idle" /\ pc'[p] # "idle")
       => LET code == loc'[p].code
              usable == /\ code \in DOMAIN codes
                        /\ codes[code].is_active
                        /\ codes[code].usage_count < codes[code].max_usage
                        /\ ~codes[code].past
          IN IF usable
             THEN loc'[p].out # "400_invalid_code"
             ELSE /\ pc'[p] = "done"
                  /\ loc'[p].out = "400_invalid_code"
                  /\ loc'[p].rid = 0
                  /\ referrals' = referrals /\ codes' = codes
                  /\ campaigns' = campaigns]_vars

\* C21 witness: a create used the once-only code and succeeded, a second
\* create with the same, now exhausted, code and a create with a code that
\* does not exist both ended with the invalid-code outcome.
C21_Witness ==
  \E p, q \in CreateProcs :
    /\ pc[p] = "done" /\ loc[p].out = "201" /\ loc[p].code = "ONE1"
    /\ pc[q] = "done" /\ loc[q].out = "400_invalid_code"
    /\ loc[q].code = "ONE1" /\ loc[q].referee # loc[p].referee
    /\ Len(referrals) = 1


\* ------------------------------------------------------------ claims on the trigger loop
\* C22: the trigger handler processes the referee's pending referrals
\* independently: when it has ended, no referral that matched the trigger is
\* left unevaluated behind one whose completion or settlement failed, and
\* the handler returned its results.
C22_TriggerContinuesOnError ==
  \A p \in LifecycleProcs :
    (pc[p] = "done" /\ loc[p].op = "processReferralTrigger" /\ loc[p].thisBound)
    => /\ Len(loc[p].list) <= 1
       /\ loc[p].out = "200"


\* ------------------------------------------------------------ claims on milestone grants
\* C23: when a checkMilestoneAchievements call has ended, every threshold
\* that the completed-referral count it read has reached carries a
\* milestone reward of the user (both 5 and 10 for a count of 10), and the
\* reward that the call granted last is credited.
C23_AllReachedMilestonesGranted ==
  \A p \in Procs :
    (pc[p] = "done" /\ loc[p].op = "checkMilestoneAchievements")
    => /\ \A mi \in DOMAIN Milestones :
            loc[p].count >= Milestones[mi]
            => MilestoneRewards(loc[p].user, Milestones[mi]) # {}
       /\ loc[p].id # 0 => rewards[loc[p].id].status = "credited"


\* ------------------------------------------------------------ claims on the first-time bonus
\* C24: every user has at most one reward of type loyalty_bonus, however
\* many first-time bonus calls run for that user, one after another or
\* concurrently.
C24_OneLoyaltyBonusPerUser ==
  \A u \in Users :
    Cardinality({i \in DOMAIN rewards : /\ rewards[i].user_id = u
                                        /\ rewards[i].reward_type = "loyalty_bonus"}) <= 1


\* ------------------------------------------------------------ claims on notifications
\* C25: a failing notification never fails or undoes the operation that
\* sent it.  The last step of a create, which sends the notifications,
\* answers 201, keeps the new referral and makes its increment, and a turn
\* of the reward sweep, which notifies the owner, expires its record, goes
\* on with the rest of the batch and keeps its count, whether the
\* notification request went through or failed.
C25_NotificationFailureHarmless ==
  [][\A p \in CreateProcs :
       /\ (pc[p] \in {"cf_usage", "cf_participants"} /\ pc'[p] = "done")
          => /\ loc'[p].out = "201"
             /\ referrals' = referrals
             /\ referrals[loc[p].rid].referee_id = loc[p].referee
             /\ IF pc[p] = "cf_usage"
                THEN /\ codes'[loc[p].code].usage_count
                          = codes[loc[p].code].usage_count + 1
                     /\ campaigns' = campaigns
                ELSE /\ campaigns'[loc[p].camp].current_participants
                          = campaigns[loc[p].camp].current_participants + 1
                     /\ codes' = codes
       /\ (pc[p] = "sw_update" /\ loc'[p] # loc[p])
          => \E id \in loc[p].batch :
               /\ rewards'[id].status = "expired"
               /\ \A k \in DOMAIN rewards \ {id} : rewards'[k] = rewards[k]
               /\ loc'[p].batch = loc[p].batch \ {id}
               /\ loc'[p].count = loc[p].count
               /\ IF loc'[p].batch = {}
                  THEN pc'[p] = "done" /\ loc'[p].out = "count"
                  ELSE pc'[p] = "sw_update"]_vars

\* C25 witness: a create whose notifications failed answered 201 with its
\* referral in place and the code's usage counted, and a reward sweep whose
\* first notification failed expired both rewards of its batch and returned
\* its count.
C25_Witness ==
  \E p, q \in CreateProcs :
    /\ pc[p] = "done" /\ loc[p].op = "createReferral"
    /\ loc[p].notify = "failed" /\ loc[p].out = "201"
    /\ referrals[loc[p].rid].status = "pending"
    /\ codes[loc[p].code].usage_count = 1
    /\ pc[q] = "done" /\ loc[q].op = "expireOldRewards"
    /\ loc[q].notify = "failed" /\ loc[q].out = "count" /\ loc[q].count = 2
    /\ \A k \in DOMAIN rewards : rewards[k].status = "expired"


\* ------------------------------------------------------------ claims on the sweeps
\* C26: a sweep never raises for one bad record: when it has ended, it did
\* not end with an exception, and no expired record of its batch is left
\* unprocessed behind one whose update failed.
C26_SweepSkipsBadRecord ==
  \A p \in SweepProcs :
    (pc[p] = "done" /\ loc[p].op \in {"expireOldRewards", "referralExpiryJob"})
    => /\ loc[p].out # "throws"
       /\ Cardinality(loc[p].batch) <= 1


\* C27: a reward sweep scans exactly the pending rewards whose expiry date
\* has passed and each of its updates moves one scanned reward to expired;
\* an expired reward stays expired, so it is moved once, and a sweep that
\* starts when no pending reward is past its expiry date ends at once and
\* changes no reward.
C27_ExpiredOnceThenNoOp ==
  [][/\ \A p \in SweepProcs :
          /\ (pc[p] = "idle" /\ loc'[p].op = "expireOldRewards")
             => /\ loc'[p].batch = {k \in DOMAIN rewards :
                                      rewards[k].status = "pending" /\ rewards[k].past}
                /\ rewards' = rewards
                /\ loc'[p].batch = {} => (pc'[p] = "done" /\ loc'[p].count = 0)
          /\ (pc[p] = "sw_update" /\ loc'[p] # loc[p] /\ rewards' # rewards)
             => \E id \in loc[p].batch :
                  /\ rewards[id].past
                  /\ rewards' = [rewards EXCEPT ![id].status = "expired"]
     /\ \A k \in DOMAIN rewards :
          rewards[k].status = "expired" => rewards'[k].status = "expired"]_vars

\* C27 witness: one sweep found both rewards expired and moved them, another
\* sweep found nothing to move, and both rewards are expired.
C27_Witness ==
  \E p, q \in SweepProcs :
    /\ pc[p] = "done" /\ loc[p].op = "expireOldRewards"
    /\ loc[p].out = "count" /\ loc[p].count = 2
    /\ pc[q] = "done" /\ loc[q].op = "expireOldRewards"
    /\ loc[q].out = "count" /\ loc[q].count = 0
    /\ \A k \in DOMAIN rewards : rewards[k].status = "expired" /\ rewards[k].past

\* C28: every record that a sweep counts is one that this sweep moved from
\* pending to expired: each update of a sweep finds its record still
\* pending, also when another sweep or a claim runs between the scan and
\* the update.
C28_SweepCountsOwnTransitions ==
  [][\A p \in SweepProcs :
       /\ (pc[p] = "sw_update" /\ loc'[p].batch # loc[p].batch)
          => \A id \in loc[p].batch \ loc'[p].batch : rewards[id].status = "pending"
       /\ (pc[p] = "xr_update" /\ loc'[p].batch # loc[p].batch)
          => \A id \in loc[p].batch \ loc'[p].batch : referrals[id].status = "pending"]_vars


\* ------------------------------------------------------------ claims on code issue and deactivation
\* C29: when no request allows several codes per owner, each owner (user and
\* role) holds at most one active code in every reachable state, also under
\* concurrent issue calls by the same owner.
C29_OneActiveCodePerOwner ==
  \A u \in Users : \A r \in Roles :
    Cardinality({c \in DOMAIN codes : /\ codes[c].owner_id = u
                                      /\ codes[c].owner_type = r
                                      /\ codes[c].is_active}) <= 1

\* C30: a deactivation goes through only for a code that exists and an
\* actor who owns it or has role admin or sales, and otherwise ends with an
\* error and the code unchanged; when it goes through it sets the active
\* flag to false and changes nothing else, with the same result for a code
\* that is inactive already; an inactive code is never active again and
\* every create that names it gets the invalid-code outcome.
C30_DeactivateByOwnerOrAdmin ==
  [][/\ \A p \in CreateProcs :
          /\ (pc[p] = "idle" /\ loc'[p].op = "deactivateReferralCode")
             => /\ codes' = codes
                /\ IF /\ loc'[p].code \in DOMAIN codes
                      /\ \/ codes[loc'[p].code].owner_id = loc'[p].user
                         \/ loc'[p].role \in {"admin", "sales"}
                   THEN pc'[p] = "dc_update"
                   ELSE pc'[p] = "done" /\ loc'[p].out \in {"404", "403"}
          /\ (pc[p] = "dc_update" /\ pc'[p] = "done")
             => /\ codes' = [codes EXCEPT ![loc[p].code].is_active = FALSE]
                /\ loc'[p].out = "200"
          /\ (pc[p] = "idle" /\ loc'[p].op = "createReferral"
              /\ ~codes[loc'[p].code].is_active)
             => pc'[p] = "done" /\ loc'[p].out = "400_invalid_code"
     /\ \A c \in DOMAIN codes :
          ~codes[c].is_active => (c \in DOMAIN codes' /\ ~codes'[c].is_active)]_vars

\* C30 witness: u1's active code was deactivated, and a create by u2 that
\* named it afterwards got the invalid-code outcome; the code's other fields
\* are as before.
C30_Witness ==
  \E p, q \in CreateProcs :
    /\ pc[p] = "done" /\ loc[p].op = "deactivateReferralCode"
    /\ loc[p].code = "CUS2" /\ loc[p].out = "200"
    /\ pc[q] = "done" /\ loc[q].op = "createReferral"
    /\ loc[q].code = "CUS2" /\ loc[q].referee = "u2"
    /\ loc[q].out = "400_invalid_code"
    /\ codes["CUS2"] = [CodeRow("u1", "customer", 2, 10, 5) EXCEPT !.is_active = FALSE]


\* ------------------------------------------------------------ claims on claiming
\* C31: a claim of a reward of another user is denied, and a claim of a
\* reward that is not pending, when the claim reads it or when its update
\* runs, fails with the precondition error; both leave every reward and the
\* ledger as they are, and the ledger is only called for a claim whose
\* update moved the reward from pending to credited.
C31_ClaimPrecondition ==
  [][/\ \A p \in Procs :
          /\ (/\ pc[p] = "idle" /\ loc'[p].op = "claimReward"
              /\ loc'[p].id \in DOMAIN rewards)
             => LET r == rewards[loc'[p].id] IN
                /\ rewards' = rewards /\ ledger' = ledger
                /\ r.user_id # loc'[p].user
                   => (pc'[p] = "done" /\ loc'[p].out = "403")
                /\ (r.user_id = loc'[p].user /\ r.status # "pending")
                   => (pc'[p] = "done" /\ loc'[p].out = "400_not_pending")
          /\ (/\ pc[p] = "cl_cas" /\ loc'[p] # loc[p]
              /\ rewards[loc[p].id].status # "pending")
             => /\ pc'[p] = "done" /\ loc'[p].out = "400_failed"
                /\ rewards' = rewards /\ ledger' = ledger
     /\ \A id \in DOMAIN rewards :
          ledger'[id] # ledger[id]
          => \E p \in Procs : /\ pc[p] = "cl_ledger" /\ loc[p].id = id
                              /\ loc[p].cas]_vars

\* C31 witness: u1's claim of the credited reward and u2's claim of the
\* cancelled one failed with the precondition error, u2's claim of u1's
\* pending reward was denied, and no ledger call was made.
C31_Witness ==
  \E p, q, r \in Procs :
    /\ pc[p] = "done" /\ loc[p].op = "claimReward" /\ loc[p].id = 2
    /\ loc[p].out = "400_not_pending"
    /\ pc[q] = "done" /\ loc[q].op = "claimReward" /\ loc[q].id = 4
    /\ loc[q].out = "400_not_pending"
    /\ pc[r] = "done" /\ loc[r].op = "claimReward" /\ loc[r].id = 1
    /\ loc[r].user = "u2" /\ loc[r].out = "403"
    /\ rewards[1].status = "pending" /\ rewards[2].status = "credited"
    /\ rewards[4].status = "cancelled"
    /\ \A id \in DOMAIN rewards : ledger[id].claim = 0


\* ------------------------------------------------------------ claims on the participant counter
\* C32: current_participants of every campaign is never negative; the
\* counter only goes down by one, in the update of decrementParticipants, and
\* that update applied at zero leaves it at zero; every other step leaves it
\* or counts it up.
C32_ParticipantsNeverNegative ==
  /\ [](\A c \in DOMAIN campaigns : campaigns[c].current_participants >= 0)
  /\ [][\A c \in DOMAIN campaigns :
          /\ campaigns'[c].current_participants < campaigns[c].current_participants
             => /\ campaigns'[c].current_participants = campaigns[c].current_participants - 1
                /\ \E p \in Procs : /\ pc[p] = "idle" /\ pc'[p] = "dp_find"
                                    /\ loc'[p].camp = c
          /\ (/\ campaigns[c].current_participants = 0
              /\ \E p \in Procs : /\ pc[p] = "idle" /\ pc'[p] = "dp_find"
                                  /\ loc'[p].camp = c)
             => campaigns'[c].current_participants = 0]_vars

\* C32 witness: decrementParticipants was applied to a campaign nobody had
\* joined and read the counter back as zero, and a second call took the
\* counter from one back to zero after a create had counted a participant.
C32_Witness ==
  \E p, q \in Procs, r \in CreateProcs :
    /\ p # q
    /\ pc[r] = "done" /\ loc[r].op = "createReferral" /\ loc[r].camp = 1
    /\ loc[r].out = "201"
    /\ pc[p] = "done" /\ loc[p].op = "decrementParticipants" /\ loc[p].camp = 1
    /\ loc[p].count = 0
    /\ pc[q] = "done" /\ loc[q].op = "decrementParticipants" /\ loc[q].camp = 1
    /\ campaigns[1].current_participants = 0


\* ------------------------------------------------------------ claims on the referral's terms
\* The rewards created for referral i.
TermsRewards(i) ==
  {k \in DOMAIN rewards : rewards[k].source_type = "referral" /\ rewards[k].source_id = i}

\* C33: the referrer bonus, referee bonus and minimum order amount of a
\* referral never change after its creation, whatever happens to the
\* referral, its code or its campaign, and every reward created for the
\* referral is the referrer's with the referral's referrer bonus or the
\* referee's with its referee bonus.
C33_TermsFixedAtCreation ==
  /\ [](\A i \in DOMAIN referrals : \A k \in TermsRewards(i) :
          \/ /\ rewards[k].user_id = referrals[i].referrer_id
             /\ rewards[k].amount = referrals[i].referrer_bonus
          \/ /\ rewards[k].user_id = referrals[i].referee_id
             /\ rewards[k].amount = referrals[i].referee_bonus)
  /\ [][\A i \in DOMAIN referrals :
          /\ referrals'[i].referrer_bonus = referrals[i].referrer_bonus
          /\ referrals'[i].referee_bonus = referrals[i].referee_bonus
          /\ referrals'[i].minimum_order_amount = referrals[i].minimum_order_amount]_vars

\* C33 witness: a referral created by a request under the campaign's bonus
\* of 30 was completed and settled with a referrer reward of 30 and a referee
\* reward of its referee bonus after the campaign's bonus was changed to 40,
\* and the referral of the initial state expired with its terms.
C33_Witness ==
  \E i, j \in DOMAIN referrals :
    /\ i > 1 /\ j = 1
    /\ referrals[i].status = "completed" /\ referrals[i].referrer_bonus = 30
    /\ referrals[i].minimum_order_amount = 5
    /\ campaigns[1].bonus_amount = 40
    /\ \E k, m \in TermsRewards(i) :
         /\ rewards[k].user_id = "u1" /\ rewards[k].amount = 30
         /\ rewards[m].user_id = "u2"
         /\ rewards[m].amount = referrals[i].referee_bonus
    /\ referrals[j].status = "expired" /\ referrals[j].referrer_bonus = 30


\* ------------------------------------------------------------ claims on retried crediting
\* C34: once a creditReward call for a pending reward has failed, with the
\* caller retrying and the ledger accepting a request in the end, the reward
\* eventually is credited, and the ledger has credited it exactly once.
C34_RetryEventuallyCredits ==
  \A id \in 1..2 :
    (\E p \in RetryProcs : /\ pc[p] = "done" /\ loc[p].op = "creditReward"
                           /\ loc[p].id = id /\ loc[p].out = "error"
                           /\ rewards[id].status = "pending")
    ~> (rewards[id].status = "credited" /\ ledger[id].service = 1)


\* ------------------------------------------------------------ claims on the liveness of expiry
\* C35: with the expiry jobs fired again and again, every referral and every
\* reward that is pending with its expiry date in the past eventually leaves
\* pending, for expired or for completed/credited, and none returns to
\* pending.
C35_PendingPastExpiryLeaves ==
  /\ \A i \in 1..2 :
       (referrals[i].status = "pending" /\ referrals[i].past)
       ~> (referrals[i].status \in {"expired", "completed"})
  /\ \A k \in 1..MaxRewards :
       (k \in DOMAIN rewards /\ rewards[k].status = "pending" /\ rewards[k].past)
       ~> (k \in DOMAIN rewards /\ rewards[k].status \in {"expired", "credited"})
  /\ [][/\ \A i \in DOMAIN referrals :
            referrals'[i].status = "pending" => referrals[i].status = "pending"
        /\ \A k \in DOMAIN rewards :
            rewards'[k].status = "pending" => rewards[k].status = "pending"]_vars

\* C35 witness: the jobs have expired two referrals and a reward that were
\* pending past their expiry dates, the other reward was claimed first, and
\* nothing past its expiry is pending.
C35_Witness ==
  /\ \A i \in DOMAIN referrals : referrals[i].status = "expired" /\ referrals[i].past
  /\ \E k, m \in DOMAIN rewards :
       /\ rewards[k].status = "expired" /\ rewards[k].past
       /\ rewards[m].status = "credited" /\ rewards[m].past
  /\ \A i \in DOMAIN referrals : referrals[i].past => referrals[i].status # "pending"
  /\ \A k \in DOMAIN rewards : rewards[k].past => rewards[k].status # "pending"
  /\ \E p \in CronProcs : pc[p] = "done" /\ loc[p].op = "referralExpiryJob"


\* ------------------------------------------------------------ claims on milestones at settlement
\* C36: when the completeReferral call that completed u1's fifth referral has
\* ended, the milestone reward of u1 for threshold 5 exists and is in the
\* call's milestone rewards.
C36_MilestoneAtSettlement ==
  \A p \in Procs :
    (/\ pc[p] = "done" /\ loc[p].op = "completeReferral" /\ loc[p].prRet # ""
     /\ Referral_getReferralStats("u1") = 5)
    => (MilestoneRewards("u1", 5) # {} /\ loc[p].granted >= 1)


\* ------------------------------------------------------------ claims on completed referrals
\* The requests that completed referral i have all ended.
CompletersDone(i) ==
  Completers(i) # {} /\ \A p \in Completers(i) : pc[p] = "done"

\* C37: once the request that completed a referral has ended, the referral
\* has exactly one reward of its referrer and exactly one of its referee.
C37_CompletedHasBothRewards ==
  \A i \in DOMAIN referrals :
    (referrals[i].status = "completed" /\ CompletersDone(i))
    => /\ Cardinality(ReferralRewards(i, referrals[i].referrer_id)) = 1
       /\ Cardinality(ReferralRewards(i, referrals[i].referee_id)) = 1

\* C38: no step moves a referral whose expiry date has passed to completed.
C38_NoCompletionAfterExpiry ==
  [][\A i \in DOMAIN referrals :
       (referrals'[i].status = "completed" /\ referrals[i].status # "completed")
       => ~referrals[i].past]_vars


\* ------------------------------------------------------------ claims on usage accounting
\* The referrals created with a code.
CreatedWith(code) == {i \in DOMAIN referrals : referrals[i].referral_code = code}

\* C39: whenever no create is between its insert and its increment, the
\* usage_count of every code is the number of referrals created with it.
C39_UsageCountExact ==
  (\A p \in Procs : pc[p] # "cf_usage")
  => \A code \in DOMAIN codes : codes[code].usage_count = Cardinality(CreatedWith(code))


\* ------------------------------------------------------------ claims on bulk processing
KnownType(request) == request.type \in BulkTypes

\* The requests of the entries of a result list, in order.
ResultRequests(results) == [i \in 1..Len(results) |-> results[i].request]

====
